---- MODULE Spec2Model ----
(***************************************************************************)
(* Iron Dominion: the network and economy engine (gameState.ts) over the   *)
(* hex utilities (hex.ts), the terrain table (terrain.ts) and the tech     *)
(* tree (techTree.ts).                                                     *)
(*                                                                         *)
(* Strings that the code builds and compares (hex keys, track keys) are    *)
(* sequences of UTF-16 code units, so that key construction, the           *)
(* lexicographic comparison of trackKey and the parsing of parseHexKey are *)
(* computed as the code computes them.  JS Map and Set are sequences in    *)
(* insertion order.                                                        *)
(***************************************************************************)
EXTENDS Integers, Sequences, FiniteSets, TLC

\* clock holds month, year and era; ledger holds monthlyIncome, monthlyExpenses,
\* lastMonthIncome, lastMonthExpenses and totalRevenue; last is the latest call and
\* what it returned.  speed is the game speed 0..3.  journal is the history of every train's
\* completed legs and delivery credits, by train id, kept for the revenue accounting.
\* economyTimer is the host's count of milliseconds since the last month end.
VARIABLES tracks, stations, trains, funds, nextTrainId, research,
          notifications, notifId, cities, explored, clock, ledger, last, speed, journal,
          economyTimer

vars == <<tracks, stations, trains, funds, nextTrainId, research,
          notifications, notifId, cities, explored, clock, ledger, last, speed, journal,
          economyTimer>>

\* ------------------------------------------------------------------------
\* Bounds of the model
\* ------------------------------------------------------------------------
MaxTracks == 2
MaxStations == 2
MaxNotifs == 3
MaxPathTracks == 5
MaxTrains == 1
MaxMonths == 21
MaxBuildMonths == 1
MaxLegs == 2
MaxSettlements == 1
MaxYears == 161
MaxPushes == 7
MaxUnlocks == 3

\* ------------------------------------------------------------------------
\* JS values
\* ------------------------------------------------------------------------
Undefined == "undefined"
Null == "null"

Abs(x) == IF x < 0 THEN -x ELSE x

\* Code units of the characters the keys are built from.
Comma == 44
Minus == 45
Zero == 48
Greater == 62

RECURSIVE Digits(_)
Digits(n) == IF n < 10 THEN <<Zero + n>> ELSE Digits(n \div 10) \o <<Zero + (n % 10)>>

\* Number.prototype.toString for an integer.
NumToString(n) == IF n < 0 THEN <<Minus>> \o Digits(-n) ELSE Digits(n)

\* The < of two JS strings: lexicographic by code unit.
RECURSIVE StrLess(_, _)
StrLess(a, b) ==
    IF b = <<>> THEN FALSE
    ELSE IF a = <<>> THEN TRUE
    ELSE IF a[1] < b[1] THEN TRUE
    ELSE IF a[1] > b[1] THEN FALSE
    ELSE StrLess(Tail(a), Tail(b))

\* String.prototype.split(',')
RECURSIVE SplitComma(_)
SplitComma(s) ==
    IF \A i \in 1..Len(s) : s[i] # Comma THEN <<s>>
    ELSE LET i == CHOOSE j \in 1..Len(s) : s[j] = Comma /\ \A k \in 1..(j-1) : s[k] # Comma
         IN <<SubSeq(s, 1, i-1)>> \o SplitComma(SubSeq(s, i+1, Len(s)))

RECURSIVE DigitsValue(_)
DigitsValue(s) == IF s = <<>> THEN 0 ELSE 10 * DigitsValue(SubSeq(s, 1, Len(s)-1)) + (s[Len(s)] - Zero)

\* Number(s) for the decimal integer strings that hexKey writes.
StrToNumber(s) == IF s # <<>> /\ s[1] = Minus THEN -DigitsValue(Tail(s)) ELSE DigitsValue(s)

\* ------------------------------------------------------------------------
\* hex.ts
\* ------------------------------------------------------------------------
Hex(q, r) == [q |-> q, r |-> r]

hexKey(hex) == NumToString(hex.q) \o <<Comma>> \o NumToString(hex.r)

parseHexKey(key) == LET parts == SplitComma(key) IN Hex(StrToNumber(parts[1]), StrToNumber(parts[2]))

hexDistance(a, b) == (Abs(a.q - b.q) + Abs(a.q + a.r - b.q - b.r) + Abs(a.r - b.r)) \div 2

\* ------------------------------------------------------------------------
\* terrain.ts: terrain table and the generated map
\* ------------------------------------------------------------------------
\* trackCostMultiplier in tenths (1.0, 1.5, 2.0, 4.0, 3.0, 1.2, 2.5, 1.0); Water's is
\* Infinity, which multiplierIsInfinite tells and for which the tenths are unused.
multiplierIsInfinite(terrain) == terrain = "water"

trackCostMultiplier10(terrain) ==
    CASE terrain = "plains" -> 10
      [] terrain = "forest" -> 15
      [] terrain = "hills" -> 20
      [] terrain = "mountains" -> 40
      [] terrain = "river" -> 30
      [] terrain = "desert" -> 12
      [] terrain = "swamp" -> 25
      [] terrain = "coast" -> 10
      [] terrain = "water" -> 0

MAP_WIDTH == 40
MAP_HEIGHT == 30

Grid == {Hex(q, r) : q \in 0..(MAP_WIDTH - 1), r \in 0..(MAP_HEIGHT - 1)}

\* One generated map: a patch of land on the northern edge, water elsewhere.
\* Columns q = 19..21, rows r = 0..2, and one more hex of plains at (19, 3), three steps
\* from the city:
\*      coast   plains(city)  forest
\*      hills   desert        mountains
\*      swamp   river         water
\*      plains
TerrainAt(h) ==
    CASE h = Hex(19, 0) -> "coast"
      [] h = Hex(20, 0) -> "plains"
      [] h = Hex(21, 0) -> "forest"
      [] h = Hex(19, 1) -> "hills"
      [] h = Hex(20, 1) -> "desert"
      [] h = Hex(21, 1) -> "mountains"
      [] h = Hex(19, 2) -> "swamp"
      [] h = Hex(20, 2) -> "river"
      [] h = Hex(19, 3) -> "plains"
      [] OTHER -> "water"

\* map.terrain: one entry per hex of the grid, keyed by hexKey (generateMap's double loop).
MapTerrainKeys == {hexKey(h) : h \in Grid}

MapTerrain == [k \in MapTerrainKeys |-> TerrainAt(parseHexKey(k))]

\* Map.prototype.get on map.terrain
terrainGet(key) == IF key \in MapTerrainKeys THEN MapTerrain[key] ELSE Undefined

\* Faulty variant: the hexes at exactly the radius are left out.
revealAroundShort(center, radius) ==
    {hexKey(Hex(center.q + dq, center.r + dr)) :
        <<dq, dr>> \in {d \in (-radius..radius) \X (-radius..radius) :
            hexDistance(center, Hex(center.q + d[1], center.r + d[2])) < radius}}

\* revealAround: the keys added around center; also generateMap's initial exploration.
revealAround(center, radius) ==
    {hexKey(Hex(center.q + dq, center.r + dr)) :
        <<dq, dr>> \in {d \in (-radius..radius) \X (-radius..radius) :
            hexDistance(center, Hex(center.q + d[1], center.r + d[2])) <= radius}}

CityHex == Hex(20, 0)

\* growth is drawn from [0.01, 0.03); 1/64 is a value that 1 + growth and the product
\* with the population represent exactly.
InitCities ==
    << [hex |-> CityHex, name |-> "Ironhaven", population |-> 1000, hasStation |-> FALSE,
        growthNum |-> 1, growthDen |-> 64] >>

\* ------------------------------------------------------------------------
\* gameState.ts: constants
\* ------------------------------------------------------------------------
trackPerHex == 500
stationHalt == 1000
stationBasic == 3000
StartFunds == 50000
StartYear == 1840

\* ------------------------------------------------------------------------
\* JS Map as a sequence of entries in insertion order
\* ------------------------------------------------------------------------
MapHas(m, k) == \E i \in 1..Len(m) : m[i].key = k

MapSet(m, e) ==
    IF MapHas(m, e.key)
    THEN [i \in 1..Len(m) |-> IF m[i].key = e.key THEN e ELSE m[i]]
    ELSE Append(m, e)

\* ------------------------------------------------------------------------
\* Track construction
\* ------------------------------------------------------------------------
Arrow == <<Minus, Greater>>

\* Faulty variant: the key keeps the order of the arguments.
trackKeyDirected(from, to) == hexKey(from) \o Arrow \o hexKey(to)

trackKey(from, to) ==
    LET fk == hexKey(from)
        tk == hexKey(to)
    IN IF StrLess(fk, tk) THEN fk \o Arrow \o tk ELSE tk \o Arrow \o fk

\* Faulty variant: the multiplier is added to the base cost instead of scaling it.
trackCostAdded(terrain) ==
    [inf |-> multiplierIsInfinite(terrain),
     val |-> trackPerHex + trackCostMultiplier10(terrain) \div 10]

\* Math.floor(COSTS.trackPerHex * trackCostMultiplier): a number or Infinity
trackCost(terrain) ==
    [inf |-> multiplierIsInfinite(terrain),
     val |-> (trackPerHex * trackCostMultiplier10(terrain)) \div 10]

\* funds < cost, where cost may be Infinity
FundsBelow(f, cost) == cost.inf \/ f < cost.val

\* Faulty variant: no adjacency test.
canBuildTrackAnyDistance(from, to) ==
    LET toTerrain == terrainGet(hexKey(to))
    IN IF toTerrain = Undefined
         THEN [ok |-> FALSE, cost |-> 0, reason |-> "Out of bounds"]
       ELSE IF toTerrain = "water"
         THEN [ok |-> FALSE, cost |-> 0, reason |-> "Cannot build on water"]
       ELSE IF MapHas(tracks, trackKey(from, to))
         THEN [ok |-> FALSE, cost |-> 0, reason |-> "Track already exists"]
       ELSE IF FundsBelow(funds, trackCost(toTerrain))
         THEN [ok |-> FALSE, cost |-> trackCost(toTerrain).val, reason |-> "Insufficient funds"]
       ELSE [ok |-> TRUE, cost |-> trackCost(toTerrain).val, reason |-> Undefined]

canBuildTrack(from, to) ==
    LET toTerrain == terrainGet(hexKey(to))
    IN IF hexDistance(from, to) # 1
         THEN [ok |-> FALSE, cost |-> 0, reason |-> "Must be adjacent hexes"]
       ELSE IF toTerrain = Undefined
         THEN [ok |-> FALSE, cost |-> 0, reason |-> "Out of bounds"]
       ELSE IF toTerrain = "water"
         THEN [ok |-> FALSE, cost |-> 0, reason |-> "Cannot build on water"]
       ELSE IF MapHas(tracks, trackKey(from, to))
         THEN [ok |-> FALSE, cost |-> 0, reason |-> "Track already exists"]
       ELSE IF FundsBelow(funds, trackCost(toTerrain))
         THEN [ok |-> FALSE, cost |-> trackCost(toTerrain).val, reason |-> "Insufficient funds"]
       ELSE [ok |-> TRUE, cost |-> trackCost(toTerrain).val, reason |-> Undefined]

\* Faulty variant: the fog is lifted before the check is looked at.
BuildTrackRevealingFirst(from, to) ==
    LET check == canBuildTrack(from, to)
    IN /\ last' = [op |-> "buildTrack", from |-> from, to |-> to, ret |-> check.ok, reason |-> check.reason]
       /\ explored' = explored \cup revealAround(to, 2)
       /\ IF ~check.ok
          THEN UNCHANGED <<tracks, funds>>
          ELSE /\ tracks' = MapSet(tracks, [key |-> trackKey(from, to), from |-> from, to |-> to,
                                            built |-> TRUE, type |-> "standard"])
               /\ funds' = funds - check.cost
       /\ UNCHANGED <<stations, trains, nextTrainId, research, notifications, notifId, cities,
                      clock, ledger>>
       /\ UNCHANGED <<speed, journal, economyTimer>>

BuildTrack(from, to) ==
    LET check == canBuildTrack(from, to)
    IN /\ last' = [op |-> "buildTrack", from |-> from, to |-> to, ret |-> check.ok, reason |-> check.reason]
       /\ IF ~check.ok
          THEN UNCHANGED <<tracks, funds, explored>>
          ELSE /\ tracks' = MapSet(tracks, [key |-> trackKey(from, to), from |-> from, to |-> to,
                                            built |-> TRUE, type |-> "standard"])
               /\ funds' = funds - check.cost
               /\ explored' = explored \cup revealAround(to, 2)
       /\ UNCHANGED <<stations, trains, nextTrainId, research, notifications, notifId, cities,
                      clock, ledger>>
       /\ UNCHANGED <<speed, journal, economyTimer>>

\* ------------------------------------------------------------------------
\* Notifications (icon, text and the Date.now() stamp are display payload and
\* are not part of the model)
\* ------------------------------------------------------------------------
\* Faulty variant: over capacity the newest entries are dropped.
addNotificationKeepingOldest(ns, id, title, type) ==
    LET pushed == Append(ns, [id |-> id, title |-> title, type |-> type])
    IN IF Len(pushed) > 5 THEN SubSeq(pushed, 1, 5) ELSE pushed

addNotification(ns, id, title, type) ==
    LET pushed == Append(ns, [id |-> id, title |-> title, type |-> type])
    IN IF Len(pushed) > 5 THEN SubSeq(pushed, Len(pushed) - 4, Len(pushed)) ELSE pushed

\* ------------------------------------------------------------------------
\* Station construction
\* ------------------------------------------------------------------------
\* state.map.cities.findIndex(c => hexKey(c.hex) === key), 0-based, -1 when absent
\* Faulty variant: no hex is recognised as a city.
cityIndexOfNowhere(key) == -1

cityIndexOf(key) ==
    IF \E i \in 1..Len(cities) : hexKey(cities[i].hex) = key
    THEN (CHOOSE i \in 1..Len(cities) :
            hexKey(cities[i].hex) = key /\ \A j \in 1..(i-1) : hexKey(cities[j].hex) # key) - 1
    ELSE -1

\* Array.from(state.tracks.values()).some(t => hexKey(t.from) === key || hexKey(t.to) === key)
hasTrackAt(key) ==
    \E i \in 1..Len(tracks) : hexKey(tracks[i].from) = key \/ hexKey(tracks[i].to) = key

HaltNames == <<"Halt 1", "Halt 2", "Halt 3", "Halt 4", "Halt 5", "Halt 6">>

\* Faulty variant: the network test is gone.
canBuildStationNoNetworkTest(hex) ==
    LET key == hexKey(hex)
        terrain == terrainGet(key)
        cost == IF cityIndexOf(key) >= 0 THEN stationBasic ELSE stationHalt
    IN IF MapHas(stations, key)
         THEN [ok |-> FALSE, cost |-> 0, reason |-> "Station already here"]
       ELSE IF terrain = Undefined \/ terrain = "water" \/ terrain = "mountains"
         THEN [ok |-> FALSE, cost |-> 0, reason |-> "Cannot build station here"]
       ELSE IF funds < cost
         THEN [ok |-> FALSE, cost |-> cost, reason |-> "Insufficient funds"]
       ELSE [ok |-> TRUE, cost |-> cost, reason |-> Undefined]

\* Faulty variant: Mountains are accepted.
canBuildStationOnMountains(hex) ==
    LET key == hexKey(hex)
        terrain == terrainGet(key)
        cost == IF cityIndexOf(key) >= 0 THEN stationBasic ELSE stationHalt
    IN IF MapHas(stations, key)
         THEN [ok |-> FALSE, cost |-> 0, reason |-> "Station already here"]
       ELSE IF terrain = Undefined \/ terrain = "water"
         THEN [ok |-> FALSE, cost |-> 0, reason |-> "Cannot build station here"]
       ELSE IF funds < cost
         THEN [ok |-> FALSE, cost |-> cost, reason |-> "Insufficient funds"]
       ELSE IF Len(stations) > 0 /\ ~hasTrackAt(key)
         THEN [ok |-> FALSE, cost |-> cost, reason |-> "Must connect to track network"]
       ELSE [ok |-> TRUE, cost |-> cost, reason |-> Undefined]

canBuildStation(hex) ==
    LET key == hexKey(hex)
        terrain == terrainGet(key)
        cost == IF cityIndexOf(key) >= 0 THEN stationBasic ELSE stationHalt
    IN IF MapHas(stations, key)
         THEN [ok |-> FALSE, cost |-> 0, reason |-> "Station already here"]
       ELSE IF terrain = Undefined \/ terrain = "water" \/ terrain = "mountains"
         THEN [ok |-> FALSE, cost |-> 0, reason |-> "Cannot build station here"]
       ELSE IF funds < cost
         THEN [ok |-> FALSE, cost |-> cost, reason |-> "Insufficient funds"]
       ELSE IF Len(stations) > 0 /\ ~hasTrackAt(key)
         THEN [ok |-> FALSE, cost |-> cost, reason |-> "Must connect to track network"]
       ELSE [ok |-> TRUE, cost |-> cost, reason |-> Undefined]

BuildStation(hex) ==
    LET check == canBuildStation(hex)
        key == hexKey(hex)
        cityIndex == cityIndexOf(key)
        station == [key |-> key, hex |-> hex,
                    name |-> IF cityIndex >= 0 THEN cities[cityIndex + 1].name
                             ELSE HaltNames[Len(stations) + 1],
                    type |-> IF cityIndex >= 0 THEN "station" ELSE "halt",
                    platforms |-> IF cityIndex >= 0 THEN 2 ELSE 1,
                    cityIndex |-> cityIndex]
    IN /\ last' = [op |-> "buildStation", hex |-> hex, ret |-> check.ok, reason |-> check.reason]
       /\ IF ~check.ok
          THEN UNCHANGED <<stations, funds, cities, notifications, notifId, explored>>
          ELSE /\ stations' = MapSet(stations, station)
               /\ funds' = funds - check.cost
               /\ IF cityIndex >= 0
                  THEN /\ notifId < MaxNotifs
                       /\ cities' = [cities EXCEPT ![cityIndex + 1].hasStation = TRUE]
                       /\ notifications' = addNotification(notifications, notifId, "Station Built", "success")
                       /\ notifId' = notifId + 1
                  ELSE UNCHANGED <<cities, notifications, notifId>>
               /\ explored' = explored \cup revealAround(hex, 3)
       /\ UNCHANGED <<tracks, trains, nextTrainId, research, clock, ledger>>
       /\ UNCHANGED <<speed, journal, economyTimer>>

\* ------------------------------------------------------------------------
\* Network pathfinding
\* ------------------------------------------------------------------------
MapGet(m, k) == (CHOOSE i \in 1..Len(m) : m[i].key = k)

\* Set.prototype.add on a Set kept in insertion order
SetAdd(xs, x) == IF \E i \in 1..Len(xs) : xs[i] = x THEN xs ELSE Append(xs, x)

\* adj.get(k)!.add(v), creating the entry first when adj has no k
AdjAdd(adj, k, v) ==
    LET withK == IF MapHas(adj, k) THEN adj ELSE Append(adj, [key |-> k, val |-> <<>>])
    IN [i \in 1..Len(withK) |->
          IF withK[i].key = k THEN [key |-> k, val |-> SetAdd(withK[i].val, v)] ELSE withK[i]]

\* The loop over state.tracks.values() that fills adj; entries are created for fk, then tk.
RECURSIVE BuildAdjacency(_, _, _)
BuildAdjacency(trks, i, adj) ==
    IF i > Len(trks) THEN adj
    ELSE LET fk == hexKey(trks[i].from)
             tk == hexKey(trks[i].to)
             a1 == IF MapHas(adj, fk) THEN adj ELSE Append(adj, [key |-> fk, val |-> <<>>])
             a2 == IF MapHas(a1, tk) THEN a1 ELSE Append(a1, [key |-> tk, val |-> <<>>])
         IN BuildAdjacency(trks, i + 1, AdjAdd(AdjAdd(a2, fk, tk), tk, fk))

\* Faulty variant: only the two ends change places.
ReverseSwappingEnds(xs) ==
    [i \in 1..Len(xs) |-> IF i = 1 THEN xs[Len(xs)] ELSE IF i = Len(xs) THEN xs[1] ELSE xs[i]]

Reverse(xs) == [i \in 1..Len(xs) |-> xs[Len(xs) + 1 - i]]

\* Faulty variant: the path is returned as collected, goal first.
ReconstructedNotReversed(xs) == xs

\* path.reverse() after the walk back along cameFrom
Reconstructed(xs) == Reverse(xs)

\* The walk from the goal back to the start; '' marks the start.
RECURSIVE WalkBack(_, _)
WalkBack(node, cameFrom) ==
    IF node = <<>> THEN <<>>
    ELSE <<parseHexKey(node)>> \o WalkBack(cameFrom[MapGet(cameFrom, node)].val, cameFrom)

\* for (const next of neighbors) if (!cameFrom.has(next)) { cameFrom.set(next, current); queue.push(next) }
RECURSIVE Visit(_, _, _, _, _)
Visit(nbrs, i, current, queue, cameFrom) ==
    IF i > Len(nbrs) THEN [queue |-> queue, cameFrom |-> cameFrom]
    ELSE IF MapHas(cameFrom, nbrs[i])
         THEN Visit(nbrs, i + 1, current, queue, cameFrom)
         ELSE Visit(nbrs, i + 1, current, Append(queue, nbrs[i]),
                    Append(cameFrom, [key |-> nbrs[i], val |-> current]))

\* Faulty variant: the queue is used as a stack.
TakeLast(queue) == [current |-> queue[Len(queue)], rest |-> SubSeq(queue, 1, Len(queue) - 1)]

\* queue.shift()
TakeFirst(queue) == [current |-> Head(queue), rest |-> Tail(queue)]

NoPath == [found |-> FALSE, path |-> <<>>]

RECURSIVE Bfs(_, _, _, _)
Bfs(adj, goalKey, queue, cameFrom) ==
    IF queue = <<>> THEN NoPath
    ELSE LET taken == TakeFirst(queue)
             current == taken.current
         IN IF current = goalKey
            THEN [found |-> TRUE, path |-> Reconstructed(WalkBack(goalKey, cameFrom))]
            ELSE IF ~MapHas(adj, current)
                 THEN Bfs(adj, goalKey, taken.rest, cameFrom)
                 ELSE LET v == Visit(adj[MapGet(adj, current)].val, 1, current, taken.rest, cameFrom)
                      IN Bfs(adj, goalKey, v.queue, v.cameFrom)

\* findTrackPath(state, from, to); null is NoPath
findTrackPath(trks, from, to) ==
    LET startKey == hexKey(from)
        goalKey == hexKey(to)
        adj == BuildAdjacency(trks, 1, <<>>)
    IN IF startKey = goalKey THEN [found |-> TRUE, path |-> <<from>>]
       ELSE IF ~MapHas(adj, startKey) THEN NoPath
       ELSE Bfs(adj, goalKey, <<startKey>>, <<[key |-> startKey, val |-> <<>>]>>)

FindTrackPathCall(from, to) ==
    /\ last' = [op |-> "findTrackPath", from |-> from, to |-> to, ret |-> findTrackPath(tracks, from, to)]
    /\ UNCHANGED <<tracks, stations, trains, funds, nextTrainId, research,
                   notifications, notifId, cities, explored, clock, ledger>>
    /\ UNCHANGED <<speed, journal, economyTimer>>

\* ------------------------------------------------------------------------
\* techTree.ts
\* ------------------------------------------------------------------------
Effect(type, value) == [type |-> type, value |-> value]

\* Faulty variant: every entry also lists itself among its prerequisites.
TechRequiringItself(id, name, era, cost, prerequisites, effects) ==
    [id |-> id, name |-> name, era |-> era, cost |-> cost,
     prerequisites |-> Append(prerequisites, id), effects |-> effects]

Tech(id, name, era, cost, prerequisites, effects) ==
    [id |-> id, name |-> name, era |-> era, cost |-> cost,
     prerequisites |-> prerequisites, effects |-> effects]

TECH_TREE ==
    << Tech("basic_locomotive", "Basic Locomotive", "steam", 0, <<>>,
            <<Effect("unlock_train", "freight")>>),
       Tech("passenger_carriages", "Passenger Carriages", "steam", 500, <<"basic_locomotive">>,
            <<Effect("unlock_train", "passenger")>>),
       Tech("mail_coach", "Mail Coach", "steam", 400, <<"basic_locomotive">>,
            <<Effect("unlock_train", "mail")>>),
       Tech("improved_boiler", "Improved Boiler", "steam", 800, <<"basic_locomotive">>,
            <<Effect("speed_bonus", 15)>>),
       Tech("diesel_engine", "Diesel Engine", "diesel", 1500, <<"improved_boiler">>,
            <<Effect("unlock_train", "mixed")>>),
       Tech("luxury_carriages", "Luxury Carriages", "diesel", 2000,
            <<"diesel_engine", "passenger_carriages">>,
            <<Effect("unlock_train", "luxury")>>),
       Tech("reinforced_chassis", "Reinforced Chassis", "diesel", 1200, <<"diesel_engine">>,
            <<Effect("capacity_bonus", 25)>>),
       Tech("efficient_logistics", "Efficient Logistics", "diesel", 1800, <<"diesel_engine">>,
            <<Effect("maintenance_reduction", 20)>>),
       Tech("electric_motors", "Electric Motors", "electric", 3000, <<"diesel_engine">>,
            <<Effect("unlock_train", "express"), Effect("unlock_track", "electrified")>>),
       Tech("signal_systems", "Signal Systems", "electric", 2500, <<"electric_motors">>,
            <<Effect("revenue_bonus", 20)>>),
       Tech("commuter_networks", "Commuter Networks", "electric", 2800,
            <<"electric_motors", "passenger_carriages">>,
            <<Effect("unlock_train", "commuter")>>),
       Tech("high_speed_rails", "High-Speed Rails", "electric", 4000,
            <<"electric_motors", "reinforced_chassis">>,
            <<Effect("speed_bonus", 30), Effect("unlock_track", "highspeed")>>),
       Tech("maglev_technology", "Maglev Technology", "maglev", 6000,
            <<"electric_motors", "high_speed_rails">>,
            <<Effect("unlock_train", "bullet")>>),
       Tech("hyperloop_prototype", "Hyperloop Prototype", "maglev", 10000, <<"maglev_technology">>,
            <<Effect("unlock_train", "hyperloop")>>),
       Tech("quantum_logistics", "Quantum Logistics", "maglev", 8000,
            <<"maglev_technology", "signal_systems">>,
            <<Effect("maintenance_reduction", 30), Effect("revenue_bonus", 25)>>),
       Tech("neural_networks", "Neural Networks", "maglev", 7000, <<"maglev_technology">>,
            <<Effect("capacity_bonus", 40), Effect("speed_bonus", 20)>>) >>

Includes(xs, x) == \E i \in 1..Len(xs) : xs[i] = x

\* TECH_TREE.find(t => t.id === id): the index of the first match, 0 for undefined
getTech(id) ==
    LET matches == {i \in 1..Len(TECH_TREE) : TECH_TREE[i].id = id}
    IN IF matches = {} THEN 0 ELSE CHOOSE i \in matches : \A j \in matches : i <= j

NoArg == [none |-> TRUE]

\* Faulty variant: of the prerequisites that are not unlocked, the one that comes first in
\* the catalogue.
FirstMissingInCatalogue(state, prereqs) ==
    CHOOSE i \in 1..Len(prereqs) :
        ~Includes(state.unlocked, prereqs[i])
        /\ \A j \in 1..Len(prereqs) :
              ~Includes(state.unlocked, prereqs[j]) => getTech(prereqs[i]) <= getTech(prereqs[j])

\* The first prerequisite, in the order of the technology's list, that is not unlocked.
FirstMissing(state, prereqs) ==
    CHOOSE i \in 1..Len(prereqs) :
        ~Includes(state.unlocked, prereqs[i])
        /\ \A j \in 1..(i - 1) : Includes(state.unlocked, prereqs[j])

\* Faulty variant: the prerequisites are not looked at.
canResearchIgnoringPrerequisites(state, techId) ==
    IF Includes(state.unlocked, techId)
      THEN [ok |-> FALSE, reason |-> "Already researched", arg |-> NoArg]
    ELSE IF getTech(techId) = 0
      THEN [ok |-> FALSE, reason |-> "Unknown technology", arg |-> NoArg]
    ELSE LET tech == TECH_TREE[getTech(techId)]
         IN IF state.points < tech.cost
              THEN [ok |-> FALSE, reason |-> "Need RP",
                    arg |-> [need |-> tech.cost, have |-> state.points]]
            ELSE [ok |-> TRUE, reason |-> Undefined, arg |-> NoArg]

\* Faulty variant: the points are not compared with the cost.
canResearchIgnoringPoints(state, techId) ==
    IF Includes(state.unlocked, techId)
      THEN [ok |-> FALSE, reason |-> "Already researched", arg |-> NoArg]
    ELSE IF getTech(techId) = 0
      THEN [ok |-> FALSE, reason |-> "Unknown technology", arg |-> NoArg]
    ELSE LET tech == TECH_TREE[getTech(techId)]
         IN IF \E i \in 1..Len(tech.prerequisites) : ~Includes(state.unlocked, tech.prerequisites[i])
              THEN LET prereq == tech.prerequisites[FirstMissing(state, tech.prerequisites)]
                   IN [ok |-> FALSE, reason |-> "Requires",
                       arg |-> [name |-> IF getTech(prereq) # 0 THEN TECH_TREE[getTech(prereq)].name
                                         ELSE prereq]]
            ELSE [ok |-> TRUE, reason |-> Undefined, arg |-> NoArg]

canResearch(state, techId) ==
    IF Includes(state.unlocked, techId)
      THEN [ok |-> FALSE, reason |-> "Already researched", arg |-> NoArg]
    ELSE IF getTech(techId) = 0
      THEN [ok |-> FALSE, reason |-> "Unknown technology", arg |-> NoArg]
    ELSE LET tech == TECH_TREE[getTech(techId)]
         IN IF \E i \in 1..Len(tech.prerequisites) : ~Includes(state.unlocked, tech.prerequisites[i])
              THEN LET prereq == tech.prerequisites[FirstMissing(state, tech.prerequisites)]
                   IN [ok |-> FALSE, reason |-> "Requires",
                       arg |-> [name |-> IF getTech(prereq) # 0 THEN TECH_TREE[getTech(prereq)].name
                                         ELSE prereq]]
            ELSE IF state.points < tech.cost
              THEN [ok |-> FALSE, reason |-> "Need RP",
                    arg |-> [need |-> tech.cost, have |-> state.points]]
            ELSE [ok |-> TRUE, reason |-> Undefined, arg |-> NoArg]

\* Faulty variant: the cost is taken twice.
UnlockTechChargingTwice(techId) ==
    LET check == canResearch(research, techId)
    IN /\ last' = [op |-> "unlockTech", techId |-> techId, ret |-> check.ok]
       /\ IF ~check.ok
          THEN UNCHANGED research
          ELSE research' = [research EXCEPT
                               !.points = @ - 2 * TECH_TREE[getTech(techId)].cost,
                               !.unlocked = SetAdd(@, techId)]
       /\ UNCHANGED <<tracks, stations, trains, funds, nextTrainId, notifications, notifId,
                      cities, explored, clock, ledger>>
       /\ UNCHANGED <<speed, journal, economyTimer>>

UnlockTech(techId) ==
    LET check == canResearch(research, techId)
    IN /\ last' = [op |-> "unlockTech", techId |-> techId, ret |-> check.ok]
       /\ IF ~check.ok
          THEN UNCHANGED research
          ELSE research' = [research EXCEPT
                               !.points = @ - TECH_TREE[getTech(techId)].cost,
                               !.unlocked = SetAdd(@, techId)]
       /\ UNCHANGED <<tracks, stations, trains, funds, nextTrainId, notifications, notifId,
                      cities, explored, clock, ledger>>
       /\ UNCHANGED <<speed, journal, economyTimer>>

\* The effects of the unlocked technologies, in the iteration order of the unlocked Set.
RECURSIVE UnlockedEffects(_, _)
UnlockedEffects(unlocked, i) ==
    IF i > Len(unlocked) THEN <<>>
    ELSE LET tech == getTech(unlocked[i])
         IN (IF tech = 0 THEN <<>> ELSE TECH_TREE[tech].effects)
            \o UnlockedEffects(unlocked, i + 1)

RECURSIVE SumValues(_, _, _)
SumValues(effects, type, i) ==
    IF i > Len(effects) THEN 0
    ELSE (IF effects[i].type = type THEN effects[i].value ELSE 0) + SumValues(effects, type, i + 1)

RECURSIVE TrainValues(_, _)
TrainValues(effects, i) ==
    IF i > Len(effects) THEN <<>>
    ELSE (IF effects[i].type = "unlock_train" THEN <<effects[i].value>> ELSE <<>>)
         \o TrainValues(effects, i + 1)

\* Faulty variant: every train type of the catalogue counts as unlocked.
getUnlockedTrainTypesOfCatalogue(state) ==
    TrainValues(UnlockedEffects([i \in 1..Len(TECH_TREE) |-> TECH_TREE[i].id], 1), 1)

getUnlockedTrainTypes(state) == TrainValues(UnlockedEffects(state.unlocked, 1), 1)

getSpeedBonus(state) == SumValues(UnlockedEffects(state.unlocked, 1), "speed_bonus", 1)

getCapacityBonus(state) == SumValues(UnlockedEffects(state.unlocked, 1), "capacity_bonus", 1)

getMaintenanceReduction(state) ==
    LET reduction == SumValues(UnlockedEffects(state.unlocked, 1), "maintenance_reduction", 1)
    IN IF reduction < 75 THEN reduction ELSE 75

getRevenueBonus(state) == SumValues(UnlockedEffects(state.unlocked, 1), "revenue_bonus", 1)

\* ------------------------------------------------------------------------
\* Train purchase
\* ------------------------------------------------------------------------
TrainTypes == {"freight", "passenger", "mixed", "luxury", "mail", "express", "commuter",
               "bullet", "hyperloop"}

\* COSTS.train*
trainCost(type) ==
    CASE type = "freight" -> 5000
      [] type = "passenger" -> 8000
      [] type = "mixed" -> 6000
      [] type = "luxury" -> 12000
      [] type = "mail" -> 4000
      [] type = "express" -> 15000
      [] type = "commuter" -> 10000
      [] type = "bullet" -> 25000
      [] type = "hyperloop" -> 50000
      [] OTHER -> 5000

\* TRAIN_CONFIGS; speed in hundredths
TRAIN_CONFIGS(type) ==
    CASE type = "freight" -> [speed100 |-> 15, capacity |-> 100, maintenance |-> 50]
      [] type = "passenger" -> [speed100 |-> 25, capacity |-> 60, maintenance |-> 80]
      [] type = "mail" -> [speed100 |-> 30, capacity |-> 40, maintenance |-> 40]
      [] type = "mixed" -> [speed100 |-> 20, capacity |-> 70, maintenance |-> 65]
      [] type = "luxury" -> [speed100 |-> 20, capacity |-> 30, maintenance |-> 120]
      [] type = "express" -> [speed100 |-> 40, capacity |-> 80, maintenance |-> 150]
      [] type = "commuter" -> [speed100 |-> 35, capacity |-> 120, maintenance |-> 100]
      [] type = "bullet" -> [speed100 |-> 55, capacity |-> 90, maintenance |-> 200]
      [] type = "hyperloop" -> [speed100 |-> 80, capacity |-> 50, maintenance |-> 350]

\* Math.floor(config.capacity * (1 + bonus / 100)) in double arithmetic: 1.4 is stored
\* just below 1.4 and 90 * 1.4 rounds to 125.99999999999999; every other product of a
\* catalogue capacity and a reachable bonus (0, 25, 40, 65) floors as the exact one does.
boostedCapacity(capacity, bonus) ==
    IF capacity = 90 /\ bonus = 40 THEN 125 ELSE (capacity * (100 + bonus)) \div 100

\* Faulty variant: every leg is appended whole, the shared station twice.
RECURSIVE resolveRouteRepeatingStations(_, _, _)
resolveRouteRepeatingStations(routeStations, i, fullRoute) ==
    IF i > Len(routeStations) - 1 THEN [found |-> TRUE, path |-> fullRoute]
    ELSE LET segment == findTrackPath(tracks, routeStations[i], routeStations[i + 1])
         IN IF ~segment.found THEN NoPath
            ELSE resolveRouteRepeatingStations(routeStations, i + 1, fullRoute \o segment.path)

\* The loop of buyTrain over consecutive stations: the full route, or NoPath at the first
\* pair without track path.
RECURSIVE resolveRoute(_, _, _)
resolveRoute(routeStations, i, fullRoute) ==
    IF i > Len(routeStations) - 1 THEN [found |-> TRUE, path |-> fullRoute]
    ELSE LET segment == findTrackPath(tracks, routeStations[i], routeStations[i + 1])
         IN IF ~segment.found THEN NoPath
            ELSE resolveRoute(routeStations, i + 1,
                              fullRoute \o (IF i = 1 THEN segment.path ELSE Tail(segment.path)))

NullTrain == [isNull |-> TRUE]

\* buyTrain refusing an unresearched type without a word.
buyTrainOutcomeSilentRefusal(type, routeStations) ==
    LET cost == trainCost(type)
        route == resolveRoute(routeStations, 1, <<>>)
    IN IF funds < cost THEN [bought |-> FALSE, notify |-> Null]
       ELSE IF Len(routeStations) < 2 THEN [bought |-> FALSE, notify |-> Null]
       ELSE IF ~Includes(getUnlockedTrainTypes(research), type)
         THEN [bought |-> FALSE, notify |-> Null]
       ELSE IF ~route.found
         THEN [bought |-> FALSE, notify |-> "No Track Path"]
       ELSE [bought |-> FALSE, notify |-> "No Track Path"]

\* Faulty variant: the id is taken from the size of the fleet.
buyTrainOutcomeIdByFleetSize(type, routeStations) ==
    LET cost == trainCost(type)
        route == resolveRoute(routeStations, 1, <<>>)
        config == TRAIN_CONFIGS(type)
    IN IF funds < cost THEN [bought |-> FALSE, notify |-> Null]
       ELSE IF Len(routeStations) < 2 THEN [bought |-> FALSE, notify |-> Null]
       ELSE IF ~Includes(getUnlockedTrainTypes(research), type)
         THEN [bought |-> FALSE, notify |-> "Tech Required"]
       ELSE IF ~route.found
         THEN [bought |-> FALSE, notify |-> "No Track Path"]
       ELSE [bought |-> TRUE, notify |-> "Train Purchased",
             train |-> [id |-> Len(trains) + 1,
                        name |-> [type |-> type, id |-> Len(trains) + 1],
                        type |-> type,
                        route |-> route.path,
                        currentSegment |-> 0,
                        progress |-> 0,
                        speed10k |-> config.speed100 * (100 + getSpeedBonus(research)),
                        capacity |-> boostedCapacity(config.capacity, getCapacityBonus(research)),
                        revenue |-> 0,
                        maintenanceCost |-> config.maintenance]]

\* What buyTrain does up to its return: the value returned, the title of the notification
\* pushed if any, and whether the purchase goes through.
buyTrainOutcome(type, routeStations) ==
    LET cost == trainCost(type)
        route == resolveRoute(routeStations, 1, <<>>)
        config == TRAIN_CONFIGS(type)
    IN IF funds < cost THEN [bought |-> FALSE, notify |-> Null]
       ELSE IF Len(routeStations) < 2 THEN [bought |-> FALSE, notify |-> Null]
       ELSE IF ~Includes(getUnlockedTrainTypes(research), type)
         THEN [bought |-> FALSE, notify |-> "Tech Required"]
       ELSE IF ~route.found
         THEN [bought |-> FALSE, notify |-> "No Track Path"]
       ELSE [bought |-> TRUE, notify |-> "Train Purchased",
             train |-> [id |-> nextTrainId,
                        name |-> [type |-> type, id |-> nextTrainId],
                        type |-> type,
                        route |-> route.path,
                        currentSegment |-> 0,
                        progress |-> 0,
                        speed10k |-> config.speed100 * (100 + getSpeedBonus(research)),
                        capacity |-> boostedCapacity(config.capacity, getCapacityBonus(research)),
                        revenue |-> 0,
                        maintenanceCost |-> config.maintenance]]

BuyTrain(type, routeStations) ==
    LET out == buyTrainOutcome(type, routeStations)
    IN /\ last' = [op |-> "buyTrain", type |-> type, routeStations |-> routeStations,
                   ret |-> IF out.bought THEN [isNull |-> FALSE, train |-> out.train] ELSE NullTrain]
       /\ IF out.notify = Null
          THEN UNCHANGED <<notifications, notifId>>
          ELSE /\ notifId < MaxNotifs
               /\ notifications' = addNotification(notifications, notifId, out.notify,
                                                   IF out.bought THEN "success" ELSE "danger")
               /\ notifId' = notifId + 1
       /\ IF out.bought
          THEN /\ trains' = Append(trains, out.train)
               /\ nextTrainId' = nextTrainId + 1
               /\ funds' = funds - trainCost(type)
          ELSE UNCHANGED <<trains, nextTrainId, funds>>
       /\ UNCHANGED <<tracks, stations, research, cities, explored, clock, ledger>>
       /\ UNCHANGED <<speed, journal, economyTimer>>

\* ------------------------------------------------------------------------
\* Train retirement
\* ------------------------------------------------------------------------
\* The costMap of removeTrain, which stops at the five first train types.
legacyCost(type) ==
    CASE type = "freight" -> 5000
      [] type = "passenger" -> 8000
      [] type = "mixed" -> 6000
      [] type = "luxury" -> 12000
      [] type = "mail" -> 4000
      [] OTHER -> 5000

\* Faulty variant: the refund follows the purchase price table.
trainRefundOfPurchasePrice(type) == trainCost(type) \div 4

\* Math.floor(cost * 0.25); every cost of the table is a multiple of four.
trainRefund(type) == legacyCost(type) \div 4

\* state.trains.findIndex(t => t.id === trainId), from 1; 0 when there is none.
trainIndexOf(trainId) ==
    IF \E i \in 1..Len(trains) : trains[i].id = trainId
    THEN CHOOSE i \in 1..Len(trains) :
            trains[i].id = trainId /\ \A j \in 1..(i - 1) : trains[j].id # trainId
    ELSE 0

\* Array.prototype.splice(idx, 1)
Splice(xs, idx) == [i \in 1..(Len(xs) - 1) |-> IF i < idx THEN xs[i] ELSE xs[i + 1]]

RemoveTrain(trainId) ==
    LET idx == trainIndexOf(trainId)
    IN /\ last' = [op |-> "removeTrain", trainId |-> trainId, ret |-> idx # 0]
       /\ IF idx = 0
          THEN UNCHANGED <<trains, funds, notifications, notifId>>
          ELSE /\ notifId < MaxNotifs
               /\ trains' = Splice(trains, idx)
               /\ funds' = funds + trainRefund(trains[idx].type)
               /\ notifications' = addNotification(notifications, notifId, "Train Retired", "warning")
               /\ notifId' = notifId + 1
       /\ UNCHANGED <<tracks, stations, nextTrainId, research, cities, explored, clock, ledger,
                      speed, journal, economyTimer>>

\* ------------------------------------------------------------------------
\* Train movement and revenue
\* ------------------------------------------------------------------------
\* progress is kept in ten-thousandths, the unit of speed10k per second of delta; the test
\* train.progress >= 1 is a test against ProgressOne.
ProgressOne == 10000

\* Faulty variant: a paused game creeps at normal speed.
speedMultipliersCreeping == <<1, 1, 3, 8>>

speedMultipliers == <<0, 1, 3, 8>>

\* typeMultiplier of updateTrains, in tenths
typeMultiplier10(type) ==
    CASE type = "hyperloop" -> 50
      [] type = "bullet" -> 40
      [] type = "luxury" -> 30
      [] type = "express" -> 25
      [] type = "passenger" -> 20
      [] type = "commuter" -> 15
      [] OTHER -> 10

\* Faulty variant: the revenue bonus is left out.
baseRevenueWithoutBonus(routeLength, type, bonus) ==
    (routeLength * 100 * typeMultiplier10(type)) \div 10

\* Faulty variant: the route is measured in segments, not in hexes.
baseRevenueBySegments(routeLength, type, bonus) ==
    ((routeLength - 1) * 100 * typeMultiplier10(type) * (100 + bonus)) \div 1000

\* Math.floor(routeLength * 100 * typeMultiplier * revBonus)
baseRevenue(routeLength, type, bonus) ==
    (routeLength * 100 * typeMultiplier10(type) * (100 + bonus)) \div 1000

\* Math.floor(Math.random() * 200) + 50 takes every value of 50..249; the draws followed are
\* the two ends and one value in between.
DeliveryDraws == {50, 249}

\* Faulty variant: any station counts, a free-standing halt too.
anyStationAt(hex) == MapHas(stations, hexKey(hex))

\* The station at a hex belongs to a city.
cityStationAt(hex) ==
    /\ MapHas(stations, hexKey(hex))
    /\ stations[MapGet(stations, hexKey(hex))].cityIndex >= 0

NoEvent == [moved |-> FALSE, legDone |-> FALSE, leg |-> 0, delivered |-> FALSE, delivery |-> 0]

\* Faulty variant: the leg ends one segment late.
legEndsLate(segment, route) == segment > Len(route) - 1

\* train.currentSegment >= train.route.length - 1
legEnds(segment, route) == segment >= Len(route) - 1

\* Faulty variant: what progress exceeds one segment by is carried over to the next.
stepTrainCarryingOver(train, gameSpeed, draw) ==
    LET progress == train.progress + train.speed10k * gameSpeed
        segment == train.currentSegment + 1
        legDone == legEnds(segment, train.route)
        route == IF legDone THEN Reverse(train.route) ELSE train.route
        leg == IF legDone
               THEN baseRevenue(Len(route), train.type, getRevenueBonus(research)) ELSE 0
        currentSegment == IF legDone THEN 0 ELSE segment
        delivered == cityStationAt(route[currentSegment + 1])
        delivery == IF delivered THEN draw ELSE 0
    IN IF Len(train.route) < 2 THEN [train |-> train, event |-> NoEvent]
       ELSE IF progress < ProgressOne
         THEN [train |-> [train EXCEPT !.progress = progress], event |-> NoEvent]
       ELSE [train |-> [train EXCEPT !.progress = progress - ProgressOne, !.route = route,
                                     !.currentSegment = currentSegment,
                                     !.revenue = @ + leg + delivery],
             event |-> [moved |-> TRUE, legDone |-> legDone, leg |-> leg,
                        delivered |-> delivered, delivery |-> delivery]]

\* Faulty variant: at the end of its route the train is put back at the start; no leg is
\* completed and the route is never turned round.
stepTrainStartingOver(train, gameSpeed, draw) ==
    LET progress == train.progress + train.speed10k * gameSpeed
        segment == train.currentSegment + 1
        currentSegment == IF legEnds(segment, train.route) THEN 0 ELSE segment
        delivered == cityStationAt(train.route[currentSegment + 1])
        delivery == IF delivered THEN draw ELSE 0
    IN IF Len(train.route) < 2 THEN [train |-> train, event |-> NoEvent]
       ELSE IF progress < ProgressOne
         THEN [train |-> [train EXCEPT !.progress = progress], event |-> NoEvent]
       ELSE [train |-> [train EXCEPT !.progress = 0, !.currentSegment = currentSegment,
                                     !.revenue = @ + delivery],
             event |-> [moved |-> TRUE, legDone |-> FALSE, leg |-> 0,
                        delivered |-> delivered, delivery |-> delivery]]

\* One pass of the loop body of updateTrains over one train: the train afterwards and what
\* happened to it.
stepTrain(train, gameSpeed, draw) ==
    LET progress == train.progress + train.speed10k * gameSpeed
        segment == train.currentSegment + 1
        legDone == legEnds(segment, train.route)
        route == IF legDone THEN Reverse(train.route) ELSE train.route
        leg == IF legDone
               THEN baseRevenue(Len(route), train.type, getRevenueBonus(research)) ELSE 0
        currentSegment == IF legDone THEN 0 ELSE segment
        delivered == cityStationAt(route[currentSegment + 1])
        delivery == IF delivered THEN draw ELSE 0
    IN IF Len(train.route) < 2 THEN [train |-> train, event |-> NoEvent]
       ELSE IF progress < ProgressOne
         THEN [train |-> [train EXCEPT !.progress = progress], event |-> NoEvent]
       ELSE [train |-> [train EXCEPT !.progress = 0, !.route = route,
                                     !.currentSegment = currentSegment,
                                     !.revenue = @ + leg + delivery],
             event |-> [moved |-> TRUE, legDone |-> legDone, leg |-> leg,
                        delivered |-> delivered, delivery |-> delivery]]

\* Faulty variant: the delivery credits do not reach the income.
RECURSIVE SumCreditsOfLegs(_, _)
SumCreditsOfLegs(events, i) ==
    IF i > Len(events) THEN 0 ELSE events[i].leg + SumCreditsOfLegs(events, i + 1)

RECURSIVE SumCredits(_, _)
SumCredits(events, i) ==
    IF i > Len(events) THEN 0 ELSE events[i].leg + events[i].delivery + SumCredits(events, i + 1)

NoJournal(id) == [id |-> id, legs |-> 0, deliveries |-> 0, deliveryTotal |-> 0]

JournalOf(j, id) ==
    IF \E i \in 1..Len(j) : j[i].id = id
    THEN j[CHOOSE i \in 1..Len(j) : j[i].id = id]
    ELSE NoJournal(id)

JournalPut(j, e) ==
    IF \E i \in 1..Len(j) : j[i].id = e.id
    THEN [i \in 1..Len(j) |-> IF j[i].id = e.id THEN e ELSE j[i]]
    ELSE Append(j, e)

RECURSIVE Journalled(_, _, _, _)
Journalled(j, ts, events, i) ==
    IF i > Len(ts) THEN j
    ELSE IF ~events[i].moved THEN Journalled(j, ts, events, i + 1)
    ELSE LET old == JournalOf(j, ts[i].id)
         IN Journalled(JournalPut(j, [old EXCEPT
                                         !.legs = @ + (IF events[i].legDone THEN 1 ELSE 0),
                                         !.deliveries = @ + (IF events[i].delivered THEN 1 ELSE 0),
                                         !.deliveryTotal = @ + events[i].delivery]),
                       ts, events, i + 1)

\* updateTrains(state, delta), delta in seconds; rnd[i] is the value Math.random yields for
\* the delivery of train i, if it has one.
UpdateTrains(delta, rnd) ==
    LET gameSpeed == speedMultipliers[speed + 1] * delta
        steps == [i \in 1..Len(trains) |-> stepTrain(trains[i], gameSpeed, rnd[i])]
        events == [i \in 1..Len(trains) |-> steps[i].event]
        credited == SumCredits(events, 1)
    IN /\ \A i \in 1..Len(trains) : ~events[i].delivered => rnd[i] = 50
       /\ trains' = [i \in 1..Len(trains) |-> steps[i].train]
       /\ ledger' = [ledger EXCEPT !.monthlyIncome = @ + credited, !.totalRevenue = @ + credited]
       /\ journal' = Journalled(journal, trains, events, 1)
       /\ last' = [op |-> "updateTrains", delta |-> delta, events |-> events]
       /\ UNCHANGED <<tracks, stations, funds, nextTrainId, research, notifications, notifId,
                      cities, explored, clock, speed, economyTimer>>

\* The speed buttons and the pause key of the host set state.speed.
SetSpeed(s) ==
    /\ speed' = s
    /\ last' = [op |-> "setSpeed", speed |-> s]
    /\ UNCHANGED <<tracks, stations, trains, funds, nextTrainId, research, notifications, notifId,
                   cities, explored, clock, ledger, journal, economyTimer>>

\* ------------------------------------------------------------------------
\* Monthly settlement and the calendar
\* ------------------------------------------------------------------------
Eras == {"steam", "diesel", "electric", "maglev"}

TRACK_MAINTENANCE_BY_ERA(era) ==
    CASE era = "steam" -> 5 [] era = "diesel" -> 10 [] era = "electric" -> 50 [] era = "maglev" -> 250

TRAIN_MAINTENANCE_BY_ERA(type, era) ==
    LET row == CASE type = "freight" -> <<50, 75, 110, 165>>
                 [] type = "passenger" -> <<80, 120, 180, 270>>
                 [] type = "mail" -> <<40, 60, 90, 135>>
                 [] type = "mixed" -> <<65, 90, 130, 195>>
                 [] type = "luxury" -> <<120, 180, 270, 405>>
                 [] type = "express" -> <<150, 220, 330, 495>>
                 [] type = "commuter" -> <<100, 150, 220, 330>>
                 [] type = "bullet" -> <<200, 300, 450, 675>>
                 [] type = "hyperloop" -> <<350, 520, 780, 1170>>
    IN row[CASE era = "steam" -> 1 [] era = "diesel" -> 2 [] era = "electric" -> 3 [] era = "maglev" -> 4]

\* TRAIN_MAINTENANCE_BY_ERA[train.type]?.[state.era] ?? train.maintenanceCost
trainMaintenance(train, era) ==
    IF train.type \in TrainTypes /\ era \in Eras
    THEN TRAIN_MAINTENANCE_BY_ERA(train.type, era)
    ELSE train.maintenanceCost

stationFee(station) ==
    IF station.type = "terminal" THEN 200 ELSE IF station.type = "station" THEN 100 ELSE 30

RECURSIVE stationFees(_, _)
stationFees(ss, i) == IF i > Len(ss) THEN 0 ELSE stationFee(ss[i]) + stationFees(ss, i + 1)

RECURSIVE trainFees(_, _, _)
trainFees(ts, era, i) ==
    IF i > Len(ts) THEN 0 ELSE trainMaintenance(ts[i], era) + trainFees(ts, era, i + 1)

RECURSIVE PowerOfTwoBelow(_, _)
PowerOfTwoBelow(x, k) == IF 2 * k <= x THEN PowerOfTwoBelow(x, 2 * k) ELSE k

\* Math.floor(totalMaintenance * (1 - reduction / 100)) in double arithmetic.  1 - 0.3 is
\* the double just below 0.7 (short by 0.4 * 2^-53); when the exact product is a whole number
\* P and 0.4 * total exceeds the largest power of two not above P, the double product
\* rounds below P and the floor is P - 1.  For reductions 0, 20, 50 and 75 the floor is that
\* of the exact product.
reducedMaintenance(total, reduction) ==
    LET exact == (total * (100 - reduction)) \div 100
    IN IF reduction = 30 /\ total > 0 /\ total % 10 = 0 /\ 4 * total > 10 * PowerOfTwoBelow(exact, 1)
       THEN exact - 1
       ELSE exact

\* This month's maintenance: tracks, stations and trains at the rates of the era, less the
\* reduction of the unlocked technologies.
monthlyMaintenance(era) ==
    reducedMaintenance(Len(tracks) * TRACK_MAINTENANCE_BY_ERA(era)
                         + stationFees(stations, 1)
                         + trainFees(trains, era, 1),
                       getMaintenanceReduction(research))

\* Faulty variant: the income earns no research points.
researchPointsOfStations(stationCount, income) == stationCount * 10

\* state.stations.size * 10 + Math.floor(state.monthlyIncome * 0.02)
researchPointsOf(stationCount, income) == stationCount * 10 + income \div 50

\* Faulty variant: every city grows.
grownCityAlways(city) ==
    [city EXCEPT !.population = (@ * (city.growthDen + city.growthNum)) \div city.growthDen]

\* Math.floor(city.population * (1 + city.growth)) for a city with a station
grownCity(city) ==
    IF city.hasStation
    THEN [city EXCEPT !.population = (@ * (city.growthDen + city.growthNum)) \div city.growthDen]
    ELSE city

\* Faulty variant: the snapshot is taken after the accumulators are zeroed.
settleSnapshotAfterReset(led) ==
    LET expenses == led.monthlyExpenses + monthlyMaintenance(clock'.era)
        rpGenerated == researchPointsOf(Len(stations), led.monthlyIncome)
    IN /\ research' = [research EXCEPT !.points = @ + rpGenerated, !.pointsPerMonth = rpGenerated]
       /\ funds' = funds + (led.monthlyIncome - expenses)
       /\ ledger' = [led EXCEPT !.lastMonthIncome = 0,
                                !.lastMonthExpenses = 0,
                                !.monthlyIncome = 0,
                                !.monthlyExpenses = 0]
       /\ cities' = [i \in 1..Len(cities) |-> grownCity(cities[i])]

\* updateEconomy on a state whose accumulators are led, from the calendar-advanced state.
settle(led) ==
    LET expenses == led.monthlyExpenses + monthlyMaintenance(clock'.era)
        rpGenerated == researchPointsOf(Len(stations), led.monthlyIncome)
    IN /\ research' = [research EXCEPT !.points = @ + rpGenerated, !.pointsPerMonth = rpGenerated]
       /\ funds' = funds + (led.monthlyIncome - expenses)
       /\ ledger' = [led EXCEPT !.lastMonthIncome = led.monthlyIncome,
                                !.lastMonthExpenses = expenses,
                                !.monthlyIncome = 0,
                                !.monthlyExpenses = 0]
       /\ cities' = [i \in 1..Len(cities) |-> grownCity(cities[i])]

\* The state after updateEconomy, from the calendar-advanced state.
updateEconomy == settle(ledger)

\* Faulty variant: each era begins a year late.
nextEraLate(year, era) ==
    IF year > 1900 /\ era = "steam" THEN "diesel"
    ELSE IF year > 1950 /\ era = "diesel" THEN "electric"
    ELSE IF year > 2000 /\ era = "electric" THEN "maglev"
    ELSE era

\* The era the calendar moves to when the year rolls over, and whether it changes.
nextEra(year, era) ==
    IF year >= 1900 /\ era = "steam" THEN "diesel"
    ELSE IF year >= 1950 /\ era = "diesel" THEN "electric"
    ELSE IF year >= 2000 /\ era = "electric" THEN "maglev"
    ELSE era

\* advanceTime on a state whose income and expense accumulators are led.
advanceTimeOn(led) ==
    LET rollover == clock.month + 1 >= 12
        year == IF rollover THEN clock.year + 1 ELSE clock.year
        era == IF rollover THEN nextEra(year, clock.era) ELSE clock.era
    IN /\ clock' = [month |-> IF rollover THEN 0 ELSE clock.month + 1, year |-> year, era |-> era]
       /\ IF era # clock.era
          THEN /\ notifId < MaxNotifs
               /\ notifications' = addNotification(notifications, notifId, "New Era!", "warning")
               /\ notifId' = notifId + 1
          ELSE UNCHANGED <<notifications, notifId>>
       /\ settle(led)

AdvanceTime ==
    /\ advanceTimeOn(ledger)
    /\ last' = [op |-> "advanceTime"]
       /\ UNCHANGED <<tracks, stations, trains, nextTrainId, explored>>
       /\ UNCHANGED <<speed, journal, economyTimer>>

\* ------------------------------------------------------------------------
\* createGameState(generateMap(...))
\* ------------------------------------------------------------------------
createResearchState ==
    [points |-> 0, pointsPerMonth |-> 0, unlocked |-> <<"basic_locomotive">>,
     currentResearch |-> Null, progress |-> 0]

Init ==
    /\ tracks = <<>>
    /\ stations = <<>>
    /\ trains = <<>>
    /\ funds = StartFunds
    /\ nextTrainId = 1
    /\ research = createResearchState
    /\ notifications = <<>>
    /\ notifId = 0
    /\ cities = InitCities
    /\ explored = revealAround(InitCities[1].hex, 4)
    /\ clock = [month |-> 0, year |-> StartYear, era |-> "steam"]
    /\ ledger = [monthlyIncome |-> 0, monthlyExpenses |-> 0, lastMonthIncome |-> 0,
                 lastMonthExpenses |-> 0, totalRevenue |-> 0]
    /\ last = [op |-> "init"]
    /\ speed = 1
    /\ journal = <<>>
    /\ economyTimer = 0

\* A game in its maglev years: the calendar has reached 2000, the whole catalogue has been
\* researched, in catalogue order, and the treasury holds twice the opening funds.
researchComplete ==
    [createResearchState EXCEPT !.unlocked = [i \in 1..Len(TECH_TREE) |-> TECH_TREE[i].id]]

InitVeteran ==
    /\ tracks = <<>>
    /\ stations = <<>>
    /\ trains = <<>>
    /\ funds = 2 * StartFunds
    /\ nextTrainId = 1
    /\ research = researchComplete
    /\ notifications = <<>>
    /\ notifId = 0
    /\ cities = InitCities
    /\ explored = revealAround(InitCities[1].hex, 4)
    /\ clock = [month |-> 0, year |-> 2000, era |-> "maglev"]
    /\ ledger = [monthlyIncome |-> 0, monthlyExpenses |-> 0, lastMonthIncome |-> 0,
                 lastMonthExpenses |-> 0, totalRevenue |-> 0]
    /\ last = [op |-> "init"]
    /\ speed = 1
    /\ journal = <<>>
    /\ economyTimer = 0

\* ------------------------------------------------------------------------
\* Room left under the bounds: a call that would add an entry beyond the bound is not taken.
\* ------------------------------------------------------------------------
TrackRoom(n, from, to) == Len(tracks) < n \/ ~canBuildTrack(from, to).ok

StationRoom(hex) == Len(stations) < MaxStations \/ ~canBuildStation(hex).ok

\* ------------------------------------------------------------------------
\* Track building alone, over the whole land patch
\* ------------------------------------------------------------------------
OutsideHex == Hex(20, -1)
WaterHex == Hex(22, 0)

TrackCalls ==
    { <<Hex(20, 0), Hex(19, 0)>>, <<Hex(19, 0), Hex(20, 0)>>, <<Hex(20, 0), Hex(21, 0)>>,
      <<Hex(19, 0), Hex(19, 1)>>, <<Hex(20, 0), Hex(20, 1)>>, <<Hex(20, 1), Hex(20, 0)>>,
      <<Hex(21, 0), Hex(21, 1)>>, <<Hex(20, 1), Hex(19, 2)>>, <<Hex(20, 1), Hex(20, 2)>>,
      <<Hex(21, 0), WaterHex>>, <<WaterHex, Hex(21, 0)>>, <<WaterHex, Hex(21, 1)>>,
      <<Hex(20, 0), OutsideHex>>, <<OutsideHex, Hex(20, 0)>>,
      <<Hex(20, 0), Hex(20, 0)>>, <<Hex(19, 0), Hex(21, 0)>>, <<Hex(20, 2), Hex(21, 2)>>,
      <<Hex(10, 5), Hex(9, 5)>> }

NextTrack == \E c \in TrackCalls : TrackRoom(MaxTracks, c[1], c[2]) /\ BuildTrack(c[1], c[2])

SpecTrack == Init /\ [][NextTrack]_vars

\* ------------------------------------------------------------------------
\* Tracks and stations around the city
\* ------------------------------------------------------------------------
ForestHex == Hex(21, 0)
DesertHex == Hex(20, 1)
MountainHex == Hex(21, 1)

StationTrackCalls ==
    { <<CityHex, ForestHex>>, <<ForestHex, DesertHex>>, <<DesertHex, CityHex>>,
      <<ForestHex, MountainHex>> }

StationHexes == {CityHex, ForestHex, DesertHex, MountainHex, WaterHex, OutsideHex}

NextStation ==
    \/ \E c \in StationTrackCalls : TrackRoom(MaxTracks, c[1], c[2]) /\ BuildTrack(c[1], c[2])
    \/ \E h \in StationHexes : StationRoom(h) /\ BuildStation(h)

SpecStation == Init /\ [][NextStation]_vars

\* ------------------------------------------------------------------------
\* Path queries over a network with a five-hex ring and a chord
\* ------------------------------------------------------------------------
CoastHex == Hex(19, 0)
HillsHex == Hex(19, 1)

PathCalls ==
    { <<HillsHex, CityHex>>, <<ForestHex, CityHex>>, <<ForestHex, MountainHex>>,
      <<DesertHex, MountainHex>>, <<DesertHex, HillsHex>>, <<CityHex, DesertHex>> }

\* Queries start on the ring or on a hex without track and aim at hexes one, two and three
\* segments away, at the start itself and at the hex without track.
PathFrom == {HillsHex, CityHex, CoastHex}

PathTo == {HillsHex, ForestHex, MountainHex, CoastHex}

NextPath ==
    \/ \E c \in PathCalls : TrackRoom(MaxPathTracks, c[1], c[2]) /\ BuildTrack(c[1], c[2])
    \/ \E f \in PathFrom, t \in PathTo : FindTrackPathCall(f, t)

SpecPath == Init /\ [][NextPath]_vars

\* ------------------------------------------------------------------------
\* Claims on track construction (SpecTrack)
\* ------------------------------------------------------------------------
IsBuildTrack(l) == l.op = "buildTrack"

\* The terrain of a hex, read off the generated map without going through keys.
TerrainOf(h) == IF h \in Grid THEN TerrainAt(h) ELSE Undefined

SamePair(seg, a, b) == {seg.from, seg.to} = {a, b}

\* C1: no track segment of state.tracks has an endpoint (from or to) on a Water tile.
C1_NoSegmentTouchesWater ==
    \A i \in 1..Len(tracks) :
        TerrainOf(tracks[i].from) # "water" /\ TerrainOf(tracks[i].to) # "water"

\* C2: once a segment joins a and b, buildTrack(a,b) and buildTrack(b,a) return false and
\* leave funds and tracks unchanged; tracks never holds two segments for one unordered
\* pair; trackKey(a,b) = trackKey(b,a) for the hexes of every call.
C2_RebuildFails ==
    /\ [][ (IsBuildTrack(last') /\ \E i \in 1..Len(tracks) : SamePair(tracks[i], last'.from, last'.to))
            => (last'.ret = FALSE /\ funds' = funds /\ tracks' = tracks) ]_vars
    /\ [](\A i, j \in 1..Len(tracks) :
            SamePair(tracks[i], tracks[j].from, tracks[j].to) => i = j)
    /\ [](IsBuildTrack(last) => trackKey(last.from, last.to) = trackKey(last.to, last.from))

\* C2 witness: the last call asked for an existing segment in the opposite direction
\* and was refused.
C2_Witness ==
    /\ IsBuildTrack(last) /\ last.ret = FALSE /\ last.reason = "Track already exists"
    /\ \E i \in 1..Len(tracks) : tracks[i].from = last.to /\ tracks[i].to = last.from

\* The cost table of the specification, by terrain of the destination.
SpecTrackCost(terrain) ==
    CASE terrain \in {"plains", "coast"} -> 500
      [] terrain = "desert" -> 600
      [] terrain = "forest" -> 750
      [] terrain = "hills" -> 1000
      [] terrain = "swamp" -> 1250
      [] terrain = "river" -> 1500
      [] terrain = "mountains" -> 2000

\* C3: a successful buildTrack(from,to) appends exactly one segment, of type standard and
\* built, and reduces funds by the table cost of the terrain of `to`.
C3_BuildEffect ==
    [][ (IsBuildTrack(last') /\ last'.ret = TRUE)
        => /\ Len(tracks') = Len(tracks) + 1
           /\ SubSeq(tracks', 1, Len(tracks)) = tracks
           /\ LET seg == tracks'[Len(tracks')]
              IN /\ seg.from = last'.from /\ seg.to = last'.to
                 /\ seg.built = TRUE /\ seg.type = "standard"
           /\ funds' = funds - SpecTrackCost(TerrainOf(last'.to)) ]_vars

\* C3 witness: from 50000, one track onto Plains leaves 49500.
C3_Witness ==
    /\ IsBuildTrack(last) /\ last.ret = TRUE /\ TerrainOf(last.to) = "plains"
    /\ Len(tracks) = 1 /\ funds = 49500

\* C4: buildTrack fails when the hexes are not at distance 1, or `to` is off the map or
\* Water; every segment joins two hexes at distance exactly 1.
C4_BadDestinationFails ==
    /\ [][ (IsBuildTrack(last') /\ (\/ hexDistance(last'.from, last'.to) # 1
                                    \/ last'.to \notin Grid
                                    \/ TerrainOf(last'.to) = "water"))
            => (last'.ret = FALSE /\ tracks' = tracks /\ funds' = funds) ]_vars
    /\ [](\A i \in 1..Len(tracks) : hexDistance(tracks[i].from, tracks[i].to) = 1)

\* C4 witness: with tracks already built, a call between hexes two apart was refused.
C4_Witness ==
    /\ IsBuildTrack(last) /\ last.ret = FALSE /\ hexDistance(last.from, last.to) = 2
    /\ Len(tracks) >= 1

\* ------------------------------------------------------------------------
\* Claims on station construction (SpecStation)
\* ------------------------------------------------------------------------
IsBuildStation(l) == l.op = "buildStation"

TouchesTrack(h) == \E i \in 1..Len(tracks) : h \in {tracks[i].from, tracks[i].to}

IsCityHex(h) == \E i \in 1..Len(cities) : cities[i].hex = h

\* C5: with no station yet, canBuildStation never refuses for lack of track; with at least
\* one station it refuses every hex that is no endpoint of a track segment, so every
\* station but the first touched a segment when it was built.
C5_NetworkRequirement ==
    /\ [][ (IsBuildStation(last') /\ Len(stations) = 0)
           => /\ last'.reason # "Must connect to track network"
              /\ (last'.hex \in Grid /\ TerrainOf(last'.hex) \notin {"water", "mountains"}
                    /\ funds >= stationBasic) => last'.ret = TRUE ]_vars
    /\ [][ (IsBuildStation(last') /\ Len(stations) >= 1 /\ ~TouchesTrack(last'.hex))
           => (last'.ret = FALSE /\ stations' = stations /\ funds' = funds) ]_vars
    /\ [](\A i \in 2..Len(stations) : TouchesTrack(stations[i].hex))

\* C5 witness: the first station stands on a hex no track touches, and a later call on
\* another hex without track was refused for lack of connection.
C5_Witness ==
    /\ IsBuildStation(last) /\ last.ret = FALSE /\ last.reason = "Must connect to track network"
    /\ Len(stations) = 1 /\ ~TouchesTrack(stations[1].hex) /\ Len(tracks) >= 1

\* C6: buildStation succeeds only on a hex of the map without station whose terrain is
\* neither Water nor Mountains, and then deducts 3000 on a city hex and 1000 elsewhere;
\* at most one station per hex, none on Water or Mountains.
C6_StationPlacement ==
    /\ [][ (IsBuildStation(last') /\ last'.ret = TRUE)
           => /\ last'.hex \in Grid
              /\ TerrainOf(last'.hex) \notin {"water", "mountains"}
              /\ \A i \in 1..Len(stations) : stations[i].hex # last'.hex
              /\ funds' = funds - (IF IsCityHex(last'.hex) THEN 3000 ELSE 1000) ]_vars
    /\ [](\A i, j \in 1..Len(stations) : stations[i].hex = stations[j].hex => i = j)
    /\ [](\A i \in 1..Len(stations) :
            stations[i].hex \in Grid /\ TerrainOf(stations[i].hex) \notin {"water", "mountains"})

\* C6 witness: a halt and then the city station were built: 50000 - 1000 - 500 - 3000.
C6_Witness ==
    /\ IsBuildStation(last) /\ last.ret = TRUE /\ last.hex = CityHex
    /\ Len(stations) = 2 /\ ~IsCityHex(stations[1].hex) /\ Len(tracks) = 1 /\ funds = 45500

\* ------------------------------------------------------------------------
\* Claims on pathfinding (SpecPath)
\* ------------------------------------------------------------------------
IsFindTrackPath(l) == l.op = "findTrackPath"

Joined(edges, a, b) == \E i \in 1..Len(edges) : SamePair(edges[i], a, b)

\* The hexes within k segments of the hexes of S, over the undirected graph of edges.
RECURSIVE Within(_, _, _)
Within(edges, S, k) ==
    IF k = 0 THEN S
    ELSE Within(edges, S \cup {h \in UNION {{edges[i].from, edges[i].to} : i \in 1..Len(edges)} :
                                  \E g \in S : Joined(edges, g, h)}, k - 1)

Reachable(edges, a, b) == b \in Within(edges, {a}, Len(edges))

\* The least number of segments from a to b (for b reachable from a).
Distance(edges, a, b) == CHOOSE k \in 0..Len(edges) :
    b \in Within(edges, {a}, k) /\ \A j \in 0..(k - 1) : b \notin Within(edges, {a}, j)

\* C7: findTrackPath returns [from] when from = to; null when from # to and no segment
\* touches from; every path returned starts at from, ends at to and steps along segments.
C7_PathShape ==
    IsFindTrackPath(last) =>
        /\ last.from = last.to => last.ret = [found |-> TRUE, path |-> <<last.from>>]
        /\ (last.from # last.to /\ ~TouchesTrack(last.from)) => last.ret = NoPath
        /\ last.ret.found =>
             LET path == last.ret.path
             IN /\ Len(path) >= 1 /\ path[1] = last.from /\ path[Len(path)] = last.to
                /\ \A i \in 1..(Len(path) - 1) : Joined(tracks, path[i], path[i + 1])

\* C7 witness: a path over three segments was returned.
C7_Witness ==
    /\ IsFindTrackPath(last) /\ last.ret.found /\ Len(last.ret.path) = 4
    /\ last.ret.path[1] = last.from /\ last.ret.path[4] = last.to

\* C8: for from # to, findTrackPath returns null exactly when to is unreachable from from,
\* and otherwise a path with the least possible number of segments.
C8_ShortestPath ==
    (IsFindTrackPath(last) /\ last.from # last.to) =>
        /\ ~last.ret.found <=> ~Reachable(tracks, last.from, last.to)
        /\ last.ret.found => Len(last.ret.path) - 1 = Distance(tracks, last.from, last.to)

\* The segments of tracks that are not steps of path.
OffPath(path) ==
    SelectSeq(tracks, LAMBDA seg : \A i \in 1..(Len(path) - 1) : ~SamePair(seg, path[i], path[i + 1]))

\* C8 witness: a two-segment path was returned although the segments off that path also
\* join from and to, the longer way round the ring.
C8_Witness ==
    /\ IsFindTrackPath(last) /\ last.ret.found /\ Len(last.ret.path) = 3
    /\ Reachable(OffPath(last.ret.path), last.from, last.to)
    /\ Distance(OffPath(last.ret.path), last.from, last.to) = 3

\* ------------------------------------------------------------------------
\* The game: construction in the opening months, purchases, research and the calendar
\* ------------------------------------------------------------------------
TrainRoom(type, routeStations) ==
    Len(trains) < MaxTrains \/ ~buyTrainOutcome(type, routeStations).bought

MonthsElapsed == (clock.year - StartYear) * 12 + clock.month

GameStationHexes == {CityHex, ForestHex}

PurchaseCalls ==
    { <<"freight", <<CityHex, ForestHex>> >>, <<"freight", <<CityHex, DesertHex>> >>,
      <<"mail", <<CityHex, ForestHex>> >>, <<"mail", <<CityHex>> >>,
      <<"hyperloop", <<CityHex, ForestHex>> >> }

ResearchCalls == {"mail_coach", "diesel_engine"}

\* The player acts in the opening months and again at the end of the horizon, when the
\* research points of two stations have had time to add up; in between only the calendar
\* moves.
PlayerActs == MonthsElapsed < MaxBuildMonths \/ MonthsElapsed >= MaxMonths - 1

Next ==
    \/ /\ MonthsElapsed < MaxBuildMonths
       /\ TrackRoom(MaxTracks, CityHex, ForestHex)
       /\ BuildTrack(CityHex, ForestHex)
    \/ \E hex \in GameStationHexes :
          MonthsElapsed < MaxBuildMonths /\ StationRoom(hex) /\ BuildStation(hex)
    \/ \E c \in PurchaseCalls : PlayerActs /\ TrainRoom(c[1], c[2]) /\ BuyTrain(c[1], c[2])
    \/ \E techId \in ResearchCalls : PlayerActs /\ UnlockTech(techId)
    \/ MonthsElapsed < MaxMonths /\ AdvanceTime

Spec == Init /\ [][Next]_vars

\* ------------------------------------------------------------------------
\* Claims about train purchase
\* ------------------------------------------------------------------------
IsBuyTrain(l) == l.op = "buyTrain"

\* A train type is unlocked when some researched technology of the catalogue carries an
\* unlock_train effect naming it.
TypeUnlocked(type) ==
    \E i \in 1..Len(research.unlocked) :
        \E t \in 1..Len(TECH_TREE) :
            /\ TECH_TREE[t].id = research.unlocked[i]
            /\ \E e \in 1..Len(TECH_TREE[t].effects) :
                  TECH_TREE[t].effects[e] = Effect("unlock_train", type)

\* C9: whatever the funds and the route, buyTrain with a train type that is not unlocked
\* returns null and leaves funds, the train list and nextTrainId unchanged.
C9_LockedPurchaseFails ==
    [][ (IsBuyTrain(last') /\ ~TypeUnlocked(last'.type))
          => /\ last'.ret = NullTrain
             /\ funds' = funds
             /\ trains' = trains
             /\ nextTrainId' = nextTrainId ]_vars

\* A mail train was refused for want of research although the funds covered it and the
\* route had a track path, some months into the game.
C9_Witness ==
    /\ IsBuyTrain(last)
    /\ last.type = "mail"
    /\ last.routeStations = <<CityHex, ForestHex>>
    /\ ~TypeUnlocked("mail")
    /\ last.ret = NullTrain
    /\ funds >= trainCost("mail")
    /\ findTrackPath(tracks, CityHex, ForestHex).found
    /\ research.points > 0

PushedOnCall(title) ==
    /\ notifId' = notifId + 1
    /\ Len(notifications') > 0
    /\ notifications'[Len(notifications')].id = notifId
    /\ notifications'[Len(notifications')].title = title

\* C10 as stated: every buyTrain call whose type is not unlocked pushes a 'Tech Required'
\* notification on that call.
C10_AlwaysTechRequired ==
    [][ (IsBuyTrain(last') /\ ~TypeUnlocked(last'.type)) => PushedOnCall("Tech Required") ]_vars

\* C10 amended: a buyTrain call made with funds covering the type's cost and at least two
\* route stations, whose type is not unlocked, pushes a 'Tech Required' notification on that
\* call and returns null; with lesser funds or a shorter route it pushes nothing.
C10_TechRequiredAfterFundsAndRoute ==
    [][ (IsBuyTrain(last') /\ ~TypeUnlocked(last'.type))
          => /\ last'.ret = NullTrain
             /\ IF funds >= trainCost(last'.type) /\ Len(last'.routeStations) >= 2
                THEN PushedOnCall("Tech Required")
                ELSE notifications' = notifications /\ notifId' = notifId ]_vars

\* A hyperloop was asked for with exactly its price in hand and two route stations, and the
\* latest notification is the refusal.
C10_Witness ==
    /\ IsBuyTrain(last)
    /\ last.type = "hyperloop"
    /\ Len(last.routeStations) = 2
    /\ funds = trainCost("hyperloop")
    /\ last.ret = NullTrain
    /\ Len(notifications) > 0
    /\ notifications[Len(notifications)].title = "Tech Required"
    /\ notifications[Len(notifications)].id = notifId - 1

\* ------------------------------------------------------------------------
\* The fleet: purchases and retirements over a small network, early and late in the game
\* ------------------------------------------------------------------------
FleetTrackCalls == { <<CityHex, ForestHex>>, <<CityHex, DesertHex>> }

FleetRoutes ==
    { <<ForestHex, CityHex, DesertHex>>, <<DesertHex, ForestHex, CityHex>>,
      <<ForestHex, CityHex, MountainHex>>, <<CityHex, CityHex>> }

FleetPurchaseCalls ==
    { <<"freight", routeStations>> : routeStations \in FleetRoutes \cup {<<CityHex, ForestHex>>} }

\* Every purchase and every retirement pushes a notification, so no id exceeds MaxNotifs.
FleetRetireCalls == 1..MaxNotifs

NextFleet ==
    \/ \E c \in FleetTrackCalls : TrackRoom(MaxTracks, c[1], c[2]) /\ BuildTrack(c[1], c[2])
    \/ \E c \in FleetPurchaseCalls : TrainRoom(c[1], c[2]) /\ BuyTrain(c[1], c[2])
    \/ \E trainId \in FleetRetireCalls : RemoveTrain(trainId)

SpecFleet == Init /\ [][NextFleet]_vars

\* ------------------------------------------------------------------------
\* Retirement of every train type, late in the game
\* ------------------------------------------------------------------------
RetirePurchaseCalls == { <<type, <<CityHex, ForestHex>> >> : type \in TrainTypes }

NextRetire ==
    \/ TrackRoom(MaxTracks, CityHex, ForestHex) /\ BuildTrack(CityHex, ForestHex)
    \/ \E c \in RetirePurchaseCalls : TrainRoom(c[1], c[2]) /\ BuyTrain(c[1], c[2])
    \/ \E trainId \in FleetRetireCalls : RemoveTrain(trainId)

SpecRetire == InitVeteran /\ [][NextRetire]_vars

\* ------------------------------------------------------------------------
\* Claims about routes, ids and refunds
\* ------------------------------------------------------------------------
\* path(S[n], S[n+1]) as findTrackPath gives it
LegPath(rs, n) == findTrackPath(tracks, rs[n], rs[n + 1])

\* path(S0,S1) ++ tail(path(S1,S2)) ++ ... up to leg n
RECURSIVE RouteOfLegs(_, _)
RouteOfLegs(rs, n) ==
    IF n = 1 THEN LegPath(rs, 1).path
    ELSE RouteOfLegs(rs, n - 1) \o Tail(LegPath(rs, n).path)

\* C11: for a station sequence S0..Sn, n >= 1, a successful buyTrain gives the train the route
\* path(S0,S1) ++ tail(path(S1,S2)) ++ ..., which starts at S0 and ends at Sn; when some
\* consecutive pair has no track path, buyTrain returns null and funds, trains and
\* nextTrainId stay as they were.
C11_RouteResolution ==
    [][ (IsBuyTrain(last') /\ Len(last'.routeStations) >= 2)
          => LET rs == last'.routeStations
                 n == Len(rs) - 1
             IN /\ (\E i \in 1..n : ~LegPath(rs, i).found)
                      => /\ last'.ret = NullTrain
                         /\ funds' = funds
                         /\ trains' = trains
                         /\ nextTrainId' = nextTrainId
                /\ last'.ret # NullTrain
                      => /\ \A i \in 1..n : LegPath(rs, i).found
                         /\ last'.ret.train.route = RouteOfLegs(rs, n)
                         /\ last'.ret.train.route[1] = rs[1]
                         /\ last'.ret.train.route[Len(last'.ret.train.route)] = rs[n + 1]
                         /\ trains' = Append(trains, last'.ret.train) ]_vars

\* A train was bought for Desert, Forest, City: its route runs Desert, City, Forest, City.
C11_Witness ==
    /\ IsBuyTrain(last)
    /\ last.routeStations = <<DesertHex, ForestHex, CityHex>>
    /\ last.ret # NullTrain
    /\ Len(trains) = 1
    /\ trains[1].route = <<DesertHex, CityHex, ForestHex, CityHex>>

IsRemoveTrain(l) == l.op = "removeTrain"

\* C13: train ids are unique and strictly increasing in purchase order over buyTrain and
\* removeTrain calls: a successful purchase takes the id nextTrainId, above every id in the
\* fleet, and moves nextTrainId one up; a failed purchase and a retirement leave nextTrainId
\* alone, so no id comes back and nextTrainId stays above every id ever given.
C13_TrainIds ==
    /\ [](/\ \A i, j \in 1..Len(trains) : i < j => trains[i].id < trains[j].id
          /\ \A i \in 1..Len(trains) : 1 <= trains[i].id /\ trains[i].id < nextTrainId)
    /\ [][ /\ nextTrainId' >= nextTrainId
           /\ (IsBuyTrain(last') /\ last'.ret # NullTrain)
                 => /\ last'.ret.train.id = nextTrainId
                    /\ nextTrainId' = nextTrainId + 1
                    /\ trains'[Len(trains')].id = nextTrainId
           /\ (IsBuyTrain(last') /\ last'.ret = NullTrain) => nextTrainId' = nextTrainId
           /\ IsRemoveTrain(last') => nextTrainId' = nextTrainId ]_vars

\* Train 1 has been retired and the next purchase took id 2.
C13_Witness ==
    /\ IsBuyTrain(last)
    /\ last.ret # NullTrain
    /\ Len(trains) = 1
    /\ trains[1].id = 2
    /\ nextTrainId = 3

\* 25% of the legacy cost
LegacyRefund(type) ==
    CASE type = "freight" -> 1250
      [] type = "passenger" -> 2000
      [] type = "mixed" -> 1500
      [] type = "luxury" -> 3000
      [] type = "mail" -> 1000
      [] type \in {"express", "commuter", "bullet", "hyperloop"} -> 1250

RECURSIVE LegsDone(_, _)
LegsDone(j, i) == IF i > Len(j) THEN 0 ELSE j[i].legs + LegsDone(j, i + 1)

\* No leg is completed beyond MaxLegs.
LegRoom(delta) ==
    \/ LegsDone(journal, 1) < MaxLegs
    \/ \A i \in 1..Len(trains) :
          ~stepTrain(trains[i], speedMultipliers[speed + 1] * delta, 50).event.legDone

\* Seconds between two frames: a frame that leaves the freight train short of the next
\* hex, and one that carries it there.
WorkDeltas == {5, 7}

\* The network is laid out before the first train is bought.
LayingOut == nextTrainId = 1

WorkStationHexes == {CityHex, ForestHex}

WorkPurchaseCalls ==
    { <<"freight", routeStations>> :
        routeStations \in { <<CityHex, ForestHex>>, <<DesertHex, ForestHex, CityHex>>,
                            <<CityHex, CityHex>> } }

\* Both lines out of the city are laid.
LinesLaid == \A c \in FleetTrackCalls : Joined(tracks, c[1], c[2])

\* One train is put to work: it is ordered once the lines are laid, the order is one the
\* shop accepts, and it is not replaced when retired.
WorkOrder(type, routeStations) ==
    /\ LinesLaid
    /\ LayingOut
    /\ buyTrainOutcome(type, routeStations).bought

NextTrains ==
    \/ \E c \in FleetTrackCalls :
          LayingOut /\ TrackRoom(MaxTracks, c[1], c[2]) /\ BuildTrack(c[1], c[2])
    \/ \E hex \in WorkStationHexes : LayingOut /\ StationRoom(hex) /\ BuildStation(hex)
    \/ \E c \in WorkPurchaseCalls : WorkOrder(c[1], c[2]) /\ BuyTrain(c[1], c[2])
    \/ \E i \in 1..Len(trains) : RemoveTrain(trains[i].id)
    \/ \E delta \in WorkDeltas, rnd \in [1..Len(trains) -> DeliveryDraws] :
          LegRoom(delta) /\ UpdateTrains(delta, rnd)
    \/ clock.month < MaxSettlements /\ AdvanceTime

SpecTrains == Init /\ [][NextTrains]_vars

\* C12: in every reachable state, whatever the order of track and station building,
\* purchases, retirements, train updates and month ends, any two consecutive hexes of any
\* train's route are the two ends of a segment of state.tracks; a route turned round at the
\* end of a leg still lies on the track.
C12_RoutesOnTrack ==
    \A i \in 1..Len(trains) :
        \A k \in 1..(Len(trains[i].route) - 1) :
            Joined(tracks, trains[i].route[k], trains[i].route[k + 1])

\* A train bought for desert, forest and city has finished its first leg and now holds the
\* four-hex route the other way round.
C12_Witness ==
    /\ Len(trains) = 1
    /\ trains[1].route = <<CityHex, ForestHex, CityHex, DesertHex>>
    /\ JournalOf(journal, trains[1].id).legs = 1
    /\ trains[1].currentSegment = 0

\* ------------------------------------------------------------------------
\* Trains in motion: frames of any length at any game speed
\* ------------------------------------------------------------------------
\* Seconds between two frames: none, and frames that take a freight train at normal speed
\* less than half a segment and more than a whole one.
Deltas == {0, 3, 7}

\* Paused, normal, fast and fastest.
Speeds == 0..3

MotionOrder(type, routeStations) ==
    Len(trains) < MaxTrains /\ buyTrainOutcome(type, routeStations).bought

NextMotion ==
    \/ \E c \in FleetTrackCalls :
          LayingOut /\ TrackRoom(MaxTracks, c[1], c[2]) /\ BuildTrack(c[1], c[2])
    \/ \E c \in WorkPurchaseCalls : MotionOrder(c[1], c[2]) /\ BuyTrain(c[1], c[2])
    \/ \E delta \in Deltas, rnd \in [1..Len(trains) -> DeliveryDraws] :
          LegRoom(delta) /\ UpdateTrains(delta, rnd)
    \/ \E s \in Speeds : SetSpeed(s)

SpecMotion == Init /\ [][NextMotion]_vars

\* C14: whatever the frame lengths and game speeds of the updateTrains calls made so far,
\* a train whose route has two hexes or more has a progress of at least 0 and less than one
\* whole segment, and a currentSegment from 0 to route.length - 2.
C14_PositionInRange ==
    \A i \in 1..Len(trains) :
        Len(trains[i].route) >= 2
          => /\ 0 <= trains[i].progress
             /\ trains[i].progress < ProgressOne
             /\ 0 <= trains[i].currentSegment
             /\ trains[i].currentSegment <= Len(trains[i].route) - 2

\* A train on a four-hex route is nine tenths of the way along its last segment.
C14_Witness ==
    /\ last.op = "updateTrains"
    /\ Len(trains) = 1
    /\ Len(trains[1].route) = 4
    /\ trains[1].currentSegment = 2
    /\ trains[1].progress = 9000

\* ------------------------------------------------------------------------
\* Income of a fleet: several freight trains running at the same time
\* ------------------------------------------------------------------------
\* The fleet grows to one train more than MaxTrains.
IncomeOrder(type, routeStations) ==
    Len(trains) <= MaxTrains /\ buyTrainOutcome(type, routeStations).bought

IncomePurchaseCalls ==
    { <<"freight", routeStations>> :
        routeStations \in { <<CityHex, ForestHex>>, <<DesertHex, ForestHex, CityHex>> } }

NextIncome ==
    \/ \E c \in FleetTrackCalls :
          LayingOut /\ TrackRoom(MaxTracks, c[1], c[2]) /\ BuildTrack(c[1], c[2])
    \/ LayingOut /\ StationRoom(CityHex) /\ BuildStation(CityHex)
    \/ \E c \in IncomePurchaseCalls : IncomeOrder(c[1], c[2]) /\ BuyTrain(c[1], c[2])
    \/ \E delta \in WorkDeltas, rnd \in [1..Len(trains) -> DeliveryDraws] :
          LegRoom(delta) /\ UpdateTrains(delta, rnd)

SpecIncome == Init /\ [][NextIncome]_vars

RECURSIVE FleetRevenue(_, _)
FleetRevenue(ts, i) == IF i > Len(ts) THEN 0 ELSE ts[i].revenue + FleetRevenue(ts, i + 1)

\* C15: every updateTrains call raises the sum of the trains' revenue, state.monthlyIncome
\* and state.totalRevenue by one and the same amount, which is never negative, and leaves
\* state.funds and state.monthlyExpenses as they were.
C15_IncomeAccounting ==
    [][ last'.op = "updateTrains"
          => LET credited == ledger'.monthlyIncome - ledger.monthlyIncome
             IN /\ credited >= 0
                /\ ledger'.totalRevenue - ledger.totalRevenue = credited
                /\ FleetRevenue(trains', 1) - FleetRevenue(trains, 1) = credited
                /\ funds' = funds
                /\ ledger'.monthlyExpenses = ledger.monthlyExpenses ]_vars

\* One call has credited two trains: the first with a leg and a delivery in the city, the
\* second with a leg.
C15_Witness ==
    /\ last.op = "updateTrains"
    /\ Len(trains) = 2
    /\ last.events[1].legDone /\ last.events[1].delivered
    /\ last.events[2].legDone /\ ~last.events[2].delivered
    /\ ledger.monthlyIncome = trains[1].revenue + trains[2].revenue
    /\ ledger.monthlyIncome > 0

\* ------------------------------------------------------------------------
\* Leg revenue: one train of any type, early and late in the game, no stations
\* ------------------------------------------------------------------------
RevenuePurchaseCalls ==
    { <<type, routeStations>> :
        type \in TrainTypes,
        routeStations \in { <<CityHex, ForestHex>>, <<DesertHex, ForestHex, CityHex>> } }

NextRevenue ==
    \/ \E c \in FleetTrackCalls :
          LayingOut /\ TrackRoom(MaxTracks, c[1], c[2]) /\ BuildTrack(c[1], c[2])
    \/ \E c \in RevenuePurchaseCalls : WorkOrder(c[1], c[2]) /\ BuyTrain(c[1], c[2])
    \/ \E delta \in WorkDeltas, rnd \in [1..Len(trains) -> DeliveryDraws] :
          LegRoom(delta) /\ UpdateTrains(delta, rnd)

SpecRevenue == (Init \/ InitVeteran) /\ [][NextRevenue]_vars

\* The type multipliers of the leg revenue, in tenths.
ClaimedMultiplier10(type) ==
    CASE type = "hyperloop" -> 50
      [] type = "bullet" -> 40
      [] type = "luxury" -> 30
      [] type = "express" -> 25
      [] type = "passenger" -> 20
      [] type = "commuter" -> 15
      [] OTHER -> 10

\* floor(routeLength x 100 x typeMultiplier x (1 + revenueBonus/100))
ClaimedLegRevenue(routeLength, type, bonus) ==
    (routeLength * 100 * ClaimedMultiplier10(type) * (100 + bonus)) \div 1000

\* The train reaches the next hex in a frame of delta seconds.
Advances(train, delta) ==
    /\ Len(train.route) >= 2
    /\ train.progress + train.speed10k * speedMultipliers[speed + 1] * delta >= ProgressOne

\* C16: when the step of a train in updateTrains brings currentSegment to route.length - 1,
\* the route is reversed, currentSegment is back at 0 and the leg revenue credited is
\* floor(route.length x 100 x typeMultiplier x (1 + revenueBonus/100)), the multiplier
\* being 5 for hyperloop, 4 for bullet, 3 for luxury, 2.5 for express, 2 for passenger, 1.5
\* for commuter and 1 for freight, mail and mixed; on any other step the route stays as it
\* is and no leg revenue is credited. (No station stands on the network, so all revenue
\* is leg revenue.)
C16_LegCompletion ==
    [][ last'.op = "updateTrains"
          => \A i \in 1..Len(trains) :
               LET before == trains[i]
                   after == trains'[i]
                   n == Len(before.route)
               IN IF Advances(before, last'.delta) /\ before.currentSegment + 1 = n - 1
                  THEN /\ Len(after.route) = n
                       /\ \A k \in 1..n : after.route[k] = before.route[n + 1 - k]
                       /\ after.currentSegment = 0
                       /\ after.revenue - before.revenue
                            = ClaimedLegRevenue(n, before.type, getRevenueBonus(research))
                  ELSE /\ after.route = before.route
                       /\ after.revenue = before.revenue
                       /\ Advances(before, last'.delta)
                            => after.currentSegment = before.currentSegment + 1 ]_vars

\* Late in the game an express train has run its four-hex route once: 4 x 100 x 2.5 x 1.45.
C16_Witness ==
    /\ last.op = "updateTrains"
    /\ research = researchComplete
    /\ Len(trains) = 1
    /\ trains[1].type = "express"
    /\ trains[1].route = <<CityHex, ForestHex, CityHex, DesertHex>>
    /\ trains[1].currentSegment = 0
    /\ last.events[1].legDone
    /\ trains[1].revenue = 1450

CityStationOn(hex) ==
    \E s \in 1..Len(stations) : stations[s].hex = hex /\ stations[s].cityIndex >= 0

\* C18: on a step of updateTrains in which a train moves on to a new hex, a delivery credit
\* between 50 and 249 is added exactly when a station with cityIndex >= 0 stands on that
\* hex, the hex at the end of a leg included; on a hex without station, or with a halt that
\* belongs to no city, no delivery revenue is credited, and a train that does not move on
\* is credited nothing.
C18_DeliveryAtCityStations ==
    [][ last'.op = "updateTrains"
          => \A i \in 1..Len(trains) :
               LET before == trains[i]
                   after == trains'[i]
                   n == Len(before.route)
                   legCredit == IF before.currentSegment + 1 = n - 1
                                THEN ClaimedLegRevenue(n, before.type, getRevenueBonus(research))
                                ELSE 0
                   deliveryCredit == after.revenue - before.revenue - legCredit
                   arrival == after.route[after.currentSegment + 1]
               IN IF Advances(before, last'.delta)
                  THEN IF CityStationOn(arrival)
                       THEN 50 <= deliveryCredit /\ deliveryCredit <= 249
                       ELSE deliveryCredit = 0
                  ELSE after.revenue = before.revenue ]_vars

\* With a station in the city and a halt in the forest, a train has shuttled from the city
\* to the forest and back: nothing was credited at the halt, and the arrival at the city
\* station, the end of the second leg, has just been credited.
C18_Witness ==
    /\ last.op = "updateTrains"
    /\ Len(stations) = 2
    /\ Len(trains) = 1
    /\ trains[1].route = <<CityHex, ForestHex>>
    /\ JournalOf(journal, trains[1].id).legs = 2
    /\ JournalOf(journal, trains[1].id).deliveries = 1
    /\ last.events[1].legDone /\ last.events[1].delivered
    /\ trains[1].revenue = 400 + 249

\* C20: right after every advanceTime call, each of which ends with updateEconomy whether
\* or not the year rolls over, monthlyIncome and monthlyExpenses are 0, lastMonthIncome is
\* the income accumulated before the call, and lastMonthExpenses is the expense total that
\* was settled against the funds just before it was zeroed.
C20_SettlementResets ==
    [][ last'.op = "advanceTime"
          => /\ ledger'.monthlyIncome = 0
             /\ ledger'.monthlyExpenses = 0
             /\ ledger'.lastMonthIncome = ledger.monthlyIncome
             /\ ledger'.lastMonthExpenses = funds + ledger.monthlyIncome - funds'
             /\ ledger'.lastMonthExpenses >= ledger.monthlyExpenses ]_vars

\* January has been settled, not a year end: the train's earnings and the upkeep of the
\* network are in the snapshot and the accumulators are empty.
C20_Witness ==
    /\ last.op = "advanceTime"
    /\ clock.month = 1
    /\ Len(trains) = 1
    /\ ledger.lastMonthIncome = trains[1].revenue
    /\ ledger.lastMonthIncome > 0
    /\ ledger.lastMonthExpenses > 0
    /\ ledger.monthlyIncome = 0
    /\ ledger.monthlyExpenses = 0

\* ------------------------------------------------------------------------
\* The monthly settlement: upkeep, research points and city growth, early in the game,
\* some years on and in the maglev years
\* ------------------------------------------------------------------------
\* A game some twenty years on, still in the steam era: the research has gone up to Quantum
\* Logistics past Efficient Logistics, whose cost is in the pool.
researchToQuantum ==
    [createResearchState EXCEPT
        !.points = 1800,
        !.unlocked = <<"basic_locomotive", "improved_boiler", "diesel_engine",
                       "reinforced_chassis", "electric_motors", "signal_systems",
                       "high_speed_rails", "maglev_technology", "quantum_logistics">>]

InitQuantum ==
    /\ tracks = <<>>
    /\ stations = <<>>
    /\ trains = <<>>
    /\ funds = StartFunds
    /\ nextTrainId = 1
    /\ research = researchToQuantum
    /\ notifications = <<>>
    /\ notifId = 0
    /\ cities = InitCities
    /\ explored = revealAround(InitCities[1].hex, 4)
    /\ clock = [month |-> 0, year |-> StartYear + 20, era |-> "steam"]
    /\ ledger = [monthlyIncome |-> 0, monthlyExpenses |-> 0, lastMonthIncome |-> 0,
                 lastMonthExpenses |-> 0, totalRevenue |-> 0]
    /\ last = [op |-> "init"]
    /\ speed = 1
    /\ journal = <<>>
    /\ economyTimer = 0

\* A frame that carries any train to its next hex.
EconomyDeltas == {7}

EconomyPurchaseCalls == { <<"freight", <<CityHex, ForestHex>> >> }

EconomyResearchCalls == {"efficient_logistics"}

NextEconomy ==
    \/ \E c \in FleetTrackCalls :
          LayingOut /\ TrackRoom(MaxTracks, c[1], c[2]) /\ BuildTrack(c[1], c[2])
    \/ \E hex \in WorkStationHexes : LayingOut /\ StationRoom(hex) /\ BuildStation(hex)
    \/ \E c \in EconomyPurchaseCalls : WorkOrder(c[1], c[2]) /\ BuyTrain(c[1], c[2])
    \/ \E i \in 1..Len(trains) : RemoveTrain(trains[i].id)
    \/ \E delta \in EconomyDeltas, rnd \in [1..Len(trains) -> DeliveryDraws] :
          LegRoom(delta) /\ UpdateTrains(delta, rnd)
    \/ \E techId \in EconomyResearchCalls : UnlockTech(techId)
    \/ clock.month < MaxSettlements /\ AdvanceTime

SpecEconomy == (Init \/ InitQuantum \/ InitVeteran) /\ [][NextEconomy]_vars

\* floor((trackCount x trackRate[era] + station fees + train maintenance) x (1 - R/100))
ClaimedMaintenance(era) ==
    ((Len(tracks) * TRACK_MAINTENANCE_BY_ERA(era)
        + stationFees(stations, 1)
        + trainFees(trains, era, 1))
     * (100 - getMaintenanceReduction(research))) \div 100

\* C21: one updateEconomy call changes the funds by exactly monthlyIncome -
\* (monthlyExpenses + M), M being the floor of the upkeep of tracks, stations and trains at
\* the rates of the era times (1 - R/100), with R the summed maintenance reduction of the
\* unlocked technologies, at most 75.
C21_SettlementAmount ==
    [][ last'.op = "advanceTime"
          => funds' - funds
               = ledger.monthlyIncome - (ledger.monthlyExpenses + ClaimedMaintenance(clock'.era))
      ]_vars

\* C22: each updateEconomy call adds 10 for every station plus floor(0.02 x monthlyIncome),
\* the income accumulated before the reset, to research.points and stores that amount in
\* research.pointsPerMonth; no other operation of the engine raises research.points.
C22_ResearchPoints ==
    [][ IF last'.op = "advanceTime"
        THEN LET generated == 10 * Len(stations) + ledger.monthlyIncome \div 50
             IN /\ research'.points = research.points + generated
                /\ research'.pointsPerMonth = generated
        ELSE research'.points <= research.points ]_vars

\* A month with two stations and a train's earnings has been settled: 20 points for the
\* stations and one for every 50 of income.
C22_Witness ==
    /\ last.op = "advanceTime"
    /\ Len(stations) = 2
    /\ ledger.lastMonthIncome >= 50
    /\ research.pointsPerMonth = 20 + ledger.lastMonthIncome \div 50
    /\ research.points >= research.pointsPerMonth

\* C23: whatever the operations, the population of a city without station stays as it
\* is, and at each settlement a city that has a station gets floor(population x
\* (1 + growth)); so no population ever goes down.
C23_CityGrowth ==
    [][ /\ Len(cities') = Len(cities)
        /\ \A i \in 1..Len(cities) :
              /\ IF last'.op = "advanceTime" /\ cities[i].hasStation
                  THEN cities'[i].population
                         = (cities[i].population * (cities[i].growthDen + cities[i].growthNum))
                             \div cities[i].growthDen
                  ELSE cities'[i].population = cities[i].population
              /\ cities'[i].population >= cities[i].population ]_vars

\* The city got its station before the month was settled and has grown from 1000 to 1015.
C23_Witness ==
    /\ last.op = "advanceTime"
    /\ cities[1].hasStation
    /\ cities[1].population = 1015

\* ------------------------------------------------------------------------
\* The calendar: month after month from 1840 into the maglev years
\* ------------------------------------------------------------------------
YearsElapsed == clock.year - StartYear

NextCalendar ==
    \/ \E c \in FleetTrackCalls :
          /\ MonthsElapsed < MaxBuildMonths
          /\ TrackRoom(MaxTracks, c[1], c[2])
          /\ BuildTrack(c[1], c[2])
    \/ YearsElapsed < MaxYears /\ AdvanceTime

SpecCalendar == Init /\ [][NextCalendar]_vars

\* The era of a year: steam before 1900, diesel before 1950, electric before 2000.
ClaimedEra(year) ==
    IF year < 1900 THEN "steam"
    ELSE IF year < 1950 THEN "diesel"
    ELSE IF year < 2000 THEN "electric"
    ELSE "maglev"

\* C24: in a run of advanceTime calls from the new game of 1840, the era is steam until the
\* year is 1900, diesel from then until 1950, electric until 2000 and maglev from then on;
\* it only ever moves one step forward along steam, diesel, electric, maglev, so that each
\* change happens once, and the call that changes it pushes one 'New Era!' notification.
C24_Eras ==
    /\ [](clock.era = ClaimedEra(clock.year))
    /\ [][ IF clock'.era # clock.era
            THEN /\ last'.op = "advanceTime"
                 /\ <<clock.era, clock'.era>>
                      \in {<<"steam", "diesel">>, <<"diesel", "electric">>, <<"electric", "maglev">>}
                 /\ notifId' = notifId + 1
                 /\ Len(notifications') = Len(notifications) + 1
                 /\ notifications'[Len(notifications')].title = "New Era!"
            ELSE last'.op = "advanceTime" => notifications' = notifications ]_vars

\* The calendar has reached 2000: the game is in its maglev era and the three changes of
\* era have been announced.
C24_Witness ==
    /\ clock.year = 2000
    /\ clock.era = "maglev"
    /\ Len(notifications) = 3
    /\ \A i \in 1..3 : notifications[i].title = "New Era!"

\* ------------------------------------------------------------------------
\* The notification list: pushes of the host and of the engine
\* ------------------------------------------------------------------------
\* addNotification called by the host itself (welcome, refused purchase).
AddNotification(title, type) ==
    /\ notifications' = addNotification(notifications, notifId, title, type)
    /\ notifId' = notifId + 1
    /\ last' = [op |-> "addNotification", title |-> title, type |-> type]
    /\ UNCHANGED <<tracks, stations, trains, funds, nextTrainId, research, cities, explored,
                   clock, ledger, speed, journal, economyTimer>>

HostPushes == { <<"Welcome, Tycoon!", "info">>, <<"Cannot Purchase", "danger">> }

NotifyPurchaseCalls == { <<"freight", <<CityHex, ForestHex>> >> }

NextNotify ==
    \/ \E n \in HostPushes : notifId < MaxPushes /\ AddNotification(n[1], n[2])
    \/ TrackRoom(MaxTracks, CityHex, ForestHex) /\ BuildTrack(CityHex, ForestHex)
    \/ StationRoom(CityHex) /\ BuildStation(CityHex)
    \/ \E c \in NotifyPurchaseCalls : TrainRoom(c[1], c[2]) /\ BuyTrain(c[1], c[2])

SpecNotify == Init /\ [][NextNotify]_vars

\* C25: after any sequence of operations state.notifications holds at most 5 entries with
\* strictly increasing ids; every push appends its entry, stamped with the next id, and a
\* push onto a full list drops the oldest entry, so that the list is always the most
\* recent pushes in push order; nothing else changes the list.
C25_NotificationList ==
    /\ [](/\ Len(notifications) <= 5
          /\ \A i \in 1..Len(notifications) :
                \A j \in (i + 1)..Len(notifications) :
                    notifications[i].id < notifications[j].id)
    /\ [][ IF notifId' # notifId
            THEN LET entry == notifications'[Len(notifications')]
                     pushed == Append(notifications, entry)
                 IN /\ notifId' = notifId + 1
                    /\ entry.id = notifId
                    /\ last'.op = "addNotification"
                          => entry.title = last'.title /\ entry.type = last'.type
                    /\ notifications' = IF Len(pushed) > 5 THEN Tail(pushed) ELSE pushed
            ELSE notifications' = notifications ]_vars

\* Seven pushes have been made, the third by buildStation: the list holds the last five,
\* ids 2 to 6, and the station's entry is now the oldest.
C25_Witness ==
    /\ notifId = 7
    /\ Len(notifications) = 5
    /\ notifications[1].id = 2
    /\ notifications[1].title = "Station Built"
    /\ notifications[5].id = 6
    /\ notifications[5].title = "Cannot Purchase"

\* ------------------------------------------------------------------------
\* Research: questions to canResearch and unlockTech calls over the whole catalogue
\* ------------------------------------------------------------------------
\* Points in the pool of a player who has not researched anything yet: none, enough for
\* the cheapest technologies, and enough for the whole catalogue.
ResearchPools == {0, 500, 60000}

InitResearch ==
    /\ tracks = <<>>
    /\ stations = <<>>
    /\ trains = <<>>
    /\ funds = StartFunds
    /\ nextTrainId = 1
    /\ \E points \in ResearchPools : research = [createResearchState EXCEPT !.points = points]
    /\ notifications = <<>>
    /\ notifId = 0
    /\ cities = InitCities
    /\ explored = revealAround(InitCities[1].hex, 4)
    /\ clock = [month |-> 0, year |-> StartYear, era |-> "steam"]
    /\ ledger = [monthlyIncome |-> 0, monthlyExpenses |-> 0, lastMonthIncome |-> 0,
                 lastMonthExpenses |-> 0, totalRevenue |-> 0]
    /\ last = [op |-> "init"]
    /\ speed = 1
    /\ journal = <<>>
    /\ economyTimer = 0

\* canResearch(state.research, techId), asked by the research panel for every entry.
CanResearch(techId) ==
    /\ last' = [op |-> "canResearch", techId |-> techId, ret |-> canResearch(research, techId)]
    /\ UNCHANGED <<tracks, stations, trains, funds, nextTrainId, research, notifications,
                   notifId, cities, explored, clock, ledger, speed, journal, economyTimer>>

\* The ids of the catalogue and one that is not in it.
TechIds == {TECH_TREE[i].id : i \in 1..Len(TECH_TREE)} \cup {"warp_drive"}

\* The first entry of the catalogue that is not unlocked yet.
NextInCatalogue ==
    LET locked == {i \in 1..Len(TECH_TREE) : ~Includes(research.unlocked, TECH_TREE[i].id)}
    IN IF locked = {} THEN Null
       ELSE TECH_TREE[CHOOSE i \in locked : \A j \in locked : i <= j].id

\* The player picks the first technologies freely and the later ones down the catalogue;
\* calls that unlockTech refuses are made at any time.
ResearchRoom(techId) ==
    \/ ~canResearch(research, techId).ok
    \/ Len(research.unlocked) <= MaxUnlocks
    \/ techId = NextInCatalogue

NextResearch ==
    \/ \E techId \in TechIds : CanResearch(techId)
    \/ \E techId \in TechIds : ResearchRoom(techId) /\ UnlockTech(techId)

SpecResearch == InitResearch /\ [][NextResearch]_vars

IsCanResearch(l) == l.op = "canResearch"

InCatalogue(id) == \E i \in 1..Len(TECH_TREE) : TECH_TREE[i].id = id

CatalogueIndex(id) == CHOOSE i \in 1..Len(TECH_TREE) : TECH_TREE[i].id = id

Unlocked(id) == \E u \in 1..Len(research.unlocked) : research.unlocked[u] = id

\* The positions, in the technology's own list, of its prerequisites that are not unlocked.
MissingOf(id) ==
    {k \in 1..Len(TECH_TREE[CatalogueIndex(id)].prerequisites) :
        ~Unlocked(TECH_TREE[CatalogueIndex(id)].prerequisites[k])}

PrerequisiteName(id, k) ==
    TECH_TREE[CatalogueIndex(TECH_TREE[CatalogueIndex(id)].prerequisites[k])].name

\* C26 as stated: asked about a known technology that is not unlocked and lacks
\* prerequisites, canResearch fails with the display name of the missing prerequisite that
\* comes first in the order of the catalogue, whatever the points.
C26_FirstMissingInCatalogueOrder ==
    (IsCanResearch(last) /\ InCatalogue(last.techId) /\ ~Unlocked(last.techId)
       /\ MissingOf(last.techId) # {})
      => /\ last.ret.ok = FALSE
         /\ last.ret.reason = "Requires"
         /\ \E k \in MissingOf(last.techId) :
               /\ \A j \in MissingOf(last.techId) :
                     CatalogueIndex(TECH_TREE[CatalogueIndex(last.techId)].prerequisites[k])
                       <= CatalogueIndex(TECH_TREE[CatalogueIndex(last.techId)].prerequisites[j])
               /\ last.ret.arg.name = PrerequisiteName(last.techId, k)

\* C26, amended: asked about a known technology that is not unlocked and lacks
\* prerequisites, canResearch fails with the display name of the missing prerequisite that
\* comes first in the technology's own list of prerequisites, whether or not the points
\* cover the cost.
C26_FirstMissingInListOrder ==
    (IsCanResearch(last) /\ InCatalogue(last.techId) /\ ~Unlocked(last.techId)
       /\ MissingOf(last.techId) # {})
      => /\ last.ret.ok = FALSE
         /\ last.ret.reason = "Requires"
         /\ \E k \in MissingOf(last.techId) :
               /\ \A j \in MissingOf(last.techId) : k <= j
               /\ last.ret.arg.name = PrerequisiteName(last.techId, k)

\* With no points and nothing researched, the question about Luxury Carriages, which
\* lists Diesel Engine before Passenger Carriages, is answered "Requires: Diesel Engine".
C26_Witness ==
    /\ IsCanResearch(last)
    /\ last.techId = "luxury_carriages"
    /\ research.points = 0
    /\ ~Unlocked("diesel_engine") /\ ~Unlocked("passenger_carriages")
    /\ last.ret.reason = "Requires"
    /\ last.ret.arg.name = "Diesel Engine"

CostOf(id) == TECH_TREE[CatalogueIndex(id)].cost

\* The technology can be researched now: known, not unlocked, no prerequisite missing, and
\* the points cover its cost.
Researchable(id) ==
    /\ InCatalogue(id)
    /\ ~Unlocked(id)
    /\ MissingOf(id) = {}
    /\ research.points >= CostOf(id)

\* C27: unlockTech returns true exactly when the id is in the catalogue, not yet unlocked,
\* with all its prerequisites unlocked and points of at least the cost; then the points fall
\* by exactly the cost and the id joins `unlocked` in the same step; in every other case it
\* returns false and the research state is unchanged.
C27_UnlockTech ==
    [][last'.op = "unlockTech" =>
         /\ last'.ret = Researchable(last'.techId)
         /\ IF Researchable(last'.techId)
            THEN /\ research'.points = research.points - CostOf(last'.techId)
                 /\ Len(research'.unlocked) = Len(research.unlocked) + 1
                 /\ {research'.unlocked[u] : u \in 1..Len(research'.unlocked)}
                      = {research.unlocked[u] : u \in 1..Len(research.unlocked)}
                          \cup {last'.techId}
                 /\ [research' EXCEPT !.points = 0, !.unlocked = <<>>]
                      = [research EXCEPT !.points = 0, !.unlocked = <<>>]
            ELSE research' = research]_vars

\* Luxury Carriages unlocked by a call that returned true, after its two prerequisites and
\* theirs, the pool of 60000 points having paid for all five.
C27_Witness ==
    /\ last.op = "unlockTech"
    /\ last.techId = "luxury_carriages"
    /\ last.ret = TRUE
    /\ Unlocked("luxury_carriages") /\ Unlocked("diesel_engine") /\ Unlocked("passenger_carriages")
    /\ Len(research.unlocked) = 6
    /\ research.points = 54800

CatalogueIds == {TECH_TREE[i].id : i \in 1..Len(TECH_TREE)}

PrerequisitesOf(id) ==
    {TECH_TREE[CatalogueIndex(id)].prerequisites[k] :
        k \in 1..Len(TECH_TREE[CatalogueIndex(id)].prerequisites)}

\* The technologies obtainable, points being no object, n rounds after those of `have`: each
\* round adds those whose prerequisites were all obtainable before it.
RECURSIVE ObtainableFrom(_, _)
ObtainableFrom(have, n) ==
    IF n = 0 THEN have
    ELSE ObtainableFrom({id \in CatalogueIds : PrerequisitesOf(id) \subseteq have}, n - 1)

Obtainable == ObtainableFrom({}, 16)

\* C28: the catalogue has 16 entries, every prerequisite id names an entry, and the
\* prerequisite relation has no cycle (every entry is obtainable within 16 rounds); so, at any
\* stage of research begun with only basic_locomotive, either everything is unlocked or some
\* locked technology has all its prerequisites unlocked and waits only for points.
C28_CatalogueAcyclic ==
    /\ Len(TECH_TREE) = 16
    /\ Cardinality(CatalogueIds) = 16
    /\ \A id \in CatalogueIds : PrerequisitesOf(id) \subseteq CatalogueIds
    /\ Obtainable = CatalogueIds
    /\ \/ \A id \in CatalogueIds : Unlocked(id)
       \/ \E id \in CatalogueIds : ~Unlocked(id) /\ MissingOf(id) = {}

\* All sixteen technologies unlocked by unlockTech calls, the last one just accepted.
C28_Witness ==
    /\ last.op = "unlockTech"
    /\ last.ret = TRUE
    /\ Len(research.unlocked) = 16
    /\ \A id \in CatalogueIds : Unlocked(id)

\* ------------------------------------------------------------------------
\* Fog of war: building out to the frontier while a train runs and months end
\* ------------------------------------------------------------------------
SwampHex == Hex(19, 2)
FrontierHex == Hex(19, 3)

\* The line to the desert and a segment to the frontier, which may be built while the train
\* is running.
FogTrackCalls == { <<CityHex, DesertHex>>, <<SwampHex, FrontierHex>> }

\* Stations and halts are built before the train is bought.
FogStationHexes == {CityHex, DesertHex, FrontierHex}

FogPurchaseCalls == { <<"freight", <<CityHex, DesertHex>> >> }

FogDeltas == {7}

\* Math.random() * 200 + 50 of a delivery at the city.
FogDraws == {50}

\* One train is bought, and not replaced when retired.
FogOrder(type, routeStations) == LayingOut /\ buyTrainOutcome(type, routeStations).bought

NextFog ==
    \/ \E c \in FogTrackCalls :
          /\ LayingOut \/ c[2] = FrontierHex
          /\ TrackRoom(MaxTracks, c[1], c[2])
          /\ BuildTrack(c[1], c[2])
    \/ \E hex \in FogStationHexes : LayingOut /\ StationRoom(hex) /\ BuildStation(hex)
    \/ \E c \in FogPurchaseCalls : FogOrder(c[1], c[2]) /\ BuyTrain(c[1], c[2])
    \/ \E i \in 1..Len(trains) : RemoveTrain(trains[i].id)
    \/ \E delta \in FogDeltas, rnd \in [1..Len(trains) -> FogDraws] :
          LegRoom(delta) /\ UpdateTrains(delta, rnd)
    \/ clock.month < MaxSettlements /\ AdvanceTime

SpecFog == Init /\ [][NextFog]_vars

Largest(a, b) == IF a >= b THEN a ELSE b

\* Steps between two hexes: the largest of the differences along the three axes.
Steps(a, b) ==
    Largest(Largest(Abs(a.q - b.q), Abs(a.r - b.r)), Abs((a.q + a.r) - (b.q + b.r)))

\* The keys of the hexes within d steps of center, on the grid or off it.
KeysWithin(center, d) ==
    {hexKey(Hex(q, r)) : <<q, r>> \in
        {c \in ((center.q - d)..(center.q + d)) \X ((center.r - d)..(center.r + d)) :
            Steps(center, Hex(c[1], c[2])) <= d}}

\* C29: no step of buildTrack, buildStation, buyTrain, removeTrain, updateTrains or
\* advanceTime removes a key from map.explored; after a successful buildTrack every hex
\* within distance 2 of the destination is explored, and after a successful buildStation
\* every hex within distance 3 of the station.
C29_ExploredGrows ==
    [][/\ explored \subseteq explored'
       /\ (last'.op = "buildTrack" /\ last'.ret = TRUE)
             => KeysWithin(last'.to, 2) \subseteq explored'
       /\ (last'.op = "buildStation" /\ last'.ret = TRUE)
             => KeysWithin(last'.hex, 3) \subseteq explored']_vars

\* The track to the frontier has just been built: the hex (18, 5), two steps beyond it and
\* five from the city, is explored, as everything around the city still is.
C29_Witness ==
    /\ last.op = "buildTrack" /\ last.ret = TRUE /\ last.to = FrontierHex
    /\ hexKey(Hex(18, 5)) \in explored
    /\ hexKey(Hex(18, 5)) \notin KeysWithin(CityHex, 4)
    /\ KeysWithin(CityHex, 4) \subseteq explored

\* ------------------------------------------------------------------------
\* GameScene.update: the frame handler of the host, and pausing
\* ------------------------------------------------------------------------
ECONOMY_INTERVAL == 5000

\* speedMultipliers of update, [0, 1, 0.33, 0.125], in thousandths.
intervalMultipliers1000 == <<0, 1000, 330, 125>>

\* ECONOMY_INTERVAL * speedMultipliers[speed]: 0, 5000, 1650 and 625 milliseconds.
economyInterval(s) == (ECONOMY_INTERVAL * intervalMultipliers1000[s + 1]) \div 1000

\* if (this.gameState.speed === 0) return;
hostPaused(s) == s = 0

\* update(_time, delta), delta in milliseconds, a whole number of seconds here; rnd as in
\* UpdateTrains.  The drawing calls have no effect on the game state.
HostUpdate(deltaMs, rnd) ==
    LET delta == deltaMs \div 1000
        gameSpeed == speedMultipliers[speed + 1] * delta
        steps == [i \in 1..Len(trains) |-> stepTrain(trains[i], gameSpeed, rnd[i])]
        events == [i \in 1..Len(trains) |-> steps[i].event]
        credited == SumCredits(events, 1)
        moved == [ledger EXCEPT !.monthlyIncome = @ + credited, !.totalRevenue = @ + credited]
        timer == economyTimer + deltaMs
        interval == economyInterval(speed)
        monthEnds == timer >= interval /\ interval > 0
    IN IF hostPaused(speed)
       THEN /\ last' = [op |-> "update", delta |-> deltaMs, monthEnded |-> FALSE]
            /\ \A i \in 1..Len(trains) : rnd[i] = 50
            /\ UNCHANGED <<tracks, stations, trains, funds, nextTrainId, research, notifications,
                           notifId, cities, explored, clock, ledger, speed, journal,
                           economyTimer>>
       ELSE /\ \A i \in 1..Len(trains) : ~events[i].delivered => rnd[i] = 50
            /\ trains' = [i \in 1..Len(trains) |-> steps[i].train]
            /\ journal' = Journalled(journal, trains, events, 1)
            /\ last' = [op |-> "update", delta |-> deltaMs, monthEnded |-> monthEnds]
            /\ IF monthEnds
               THEN /\ economyTimer' = 0
                    /\ advanceTimeOn(moved)
               ELSE /\ economyTimer' = timer
                    /\ ledger' = moved
                    /\ UNCHANGED <<funds, research, notifications, notifId, cities, clock>>
            /\ UNCHANGED <<tracks, stations, nextTrainId, explored, speed>>

\* Frames of three and of seven seconds: at normal speed the first leaves the timer short
\* of the interval, the second ends the month.
HostDeltas == {3000, 7000}

\* No month is ended beyond MaxSettlements, no leg completed beyond MaxLegs.
HostRoom(deltaMs) ==
    /\ LegRoom(deltaMs \div 1000)
    /\ \/ clock.month < MaxSettlements
       \/ hostPaused(speed)
       \/ ~(economyTimer + deltaMs >= economyInterval(speed) /\ economyInterval(speed) > 0)

HostOrder(type, routeStations) == LayingOut /\ buyTrainOutcome(type, routeStations).bought

HostPurchaseCalls == { <<"freight", <<CityHex, ForestHex>> >> }

NextHost ==
    \/ \E c \in FleetTrackCalls :
          LayingOut /\ TrackRoom(MaxTracks, c[1], c[2]) /\ BuildTrack(c[1], c[2])
    \/ \E c \in HostPurchaseCalls : HostOrder(c[1], c[2]) /\ BuyTrain(c[1], c[2])
    \/ \E s \in Speeds : SetSpeed(s)
    \/ \E delta \in Deltas, rnd \in [1..Len(trains) -> DeliveryDraws] :
          LegRoom(delta) /\ UpdateTrains(delta, rnd)
    \/ \E deltaMs \in HostDeltas, rnd \in [1..Len(trains) -> DeliveryDraws] :
          HostRoom(deltaMs) /\ HostUpdate(deltaMs, rnd)

SpecHost == Init /\ [][NextHost]_vars

\* What the claim says of a train: where it is, its route, and what it has earned.
TrainSheet(train) ==
    [progress |-> train.progress, currentSegment |-> train.currentSegment,
     route |-> train.route, revenue |-> train.revenue]

\* C30: while state.speed is 0, an updateTrains call, whatever its delta, leaves every
\* train's progress, currentSegment, route and revenue, and monthlyIncome, totalRevenue and
\* funds, as they were; and a frame update of the host moves no train and does not call
\* advanceTime: calendar, accumulators and funds stay as they were.
C30_PausedNothingMoves ==
    [][speed = 0 =>
         /\ last'.op = "updateTrains"
              => /\ Len(trains') = Len(trains)
                 /\ \A i \in 1..Len(trains) : TrainSheet(trains'[i]) = TrainSheet(trains[i])
                 /\ ledger'.monthlyIncome = ledger.monthlyIncome
                 /\ ledger'.totalRevenue = ledger.totalRevenue
                 /\ funds' = funds
         /\ last'.op = "update"
              => /\ last'.monthEnded = FALSE
                 /\ Len(trains') = Len(trains)
                 /\ \A i \in 1..Len(trains) : TrainSheet(trains'[i]) = TrainSheet(trains[i])
                 /\ clock' = clock
                 /\ ledger' = ledger
                 /\ funds' = funds]_vars

\* A seven-second frame has reached the host while the game is paused: the train is still
\* nine tenths of the way along its segment, the timer still shows the three seconds that
\* had run before the pause, and the month has not ended.
C30_Witness ==
    /\ speed = 0
    /\ last.op = "update" /\ last.delta = 7000 /\ last.monthEnded = FALSE
    /\ Len(trains) = 1
    /\ trains[1].progress = 9000
    /\ economyTimer = 3000
    /\ clock.month = 0

\* ------------------------------------------------------------------------
\* Further claims about research
\* ------------------------------------------------------------------------
UnlockedSet(state) == {state.unlocked[u] : u \in 1..Len(state.unlocked)}

\* C33: from createResearchState, through any sequence of unlockTech calls, every
\* prerequisite of every unlocked technology is itself unlocked, and no step removes a
\* technology from the unlocked set.
C33_UnlockedClosed ==
    /\ [](\A id \in UnlockedSet(research) :
            InCatalogue(id) /\ PrerequisitesOf(id) \subseteq UnlockedSet(research))
    /\ [][UnlockedSet(research) \subseteq UnlockedSet(research')]_vars

\* Quantum Logistics has been unlocked by a call that returned true, with Maglev
\* Technology and Signal Systems, and all that they need, unlocked before it.
C33_Witness ==
    /\ last.op = "unlockTech" /\ last.techId = "quantum_logistics" /\ last.ret = TRUE
    /\ {"quantum_logistics", "maglev_technology", "signal_systems", "high_speed_rails",
        "electric_motors", "reinforced_chassis", "diesel_engine", "improved_boiler",
        "basic_locomotive"} \subseteq UnlockedSet(research)

\* ------------------------------------------------------------------------
\* Further claims about trains
\* ------------------------------------------------------------------------
\* C34: every train of the fleet has a route of at least 2 hexes, and a buyTrain call that
\* would give a train a route of a single hex returns null and charges nothing.
C34_RoutesOfTwoHexes ==
    /\ [](\A i \in 1..Len(trains) : Len(trains[i].route) >= 2)
    /\ [][(IsBuyTrain(last') /\ last'.ret # NullTrain)
            => Len(last'.ret.train.route) >= 2]_vars

\* The multiplier of the game speed: 0 paused, then 1, 3 and 8.
ClaimedSpeedMultiplier(s) == CASE s = 0 -> 0 [] s = 1 -> 1 [] s = 2 -> 3 [] s = 3 -> 8

\* The hex a train stands on.
HexOf(train) == train.route[train.currentSegment + 1]

\* C35: in one updateTrains call, whatever the delta and the game speed, a train with a
\* route of 2 hexes or more either gains speed x multiplier x delta of progress and stays
\* below one segment, on its hex, or, its progress reaching one segment or more, moves to
\* the next hex of its route and no further, with progress exactly 0: currentSegment goes
\* up by exactly 1, or, at the end of the route, the route is turned round and
\* currentSegment is 0.
C35_OneHexPerCall ==
    [][last'.op = "updateTrains" =>
         /\ Len(trains') = Len(trains)
         /\ \A i \in 1..Len(trains) :
               Len(trains[i].route) >= 2 =>
                 LET gained == trains[i].progress
                                 + trains[i].speed10k * ClaimedSpeedMultiplier(speed) * last'.delta
                 IN IF gained < ProgressOne
                    THEN /\ trains'[i].progress = gained
                         /\ trains'[i].currentSegment = trains[i].currentSegment
                         /\ trains'[i].route = trains[i].route
                    ELSE /\ trains'[i].progress = 0
                         /\ HexOf(trains'[i]) = trains[i].route[trains[i].currentSegment + 2]
                         /\ \/ /\ trains'[i].currentSegment = trains[i].currentSegment + 1
                               /\ trains'[i].route = trains[i].route
                            \/ /\ trains[i].currentSegment + 1 = Len(trains[i].route) - 1
                               /\ trains'[i].currentSegment = 0
                               /\ Len(trains'[i].route) = Len(trains[i].route)
                               /\ \A k \in 1..Len(trains[i].route) :
                                     trains'[i].route[k]
                                       = trains[i].route[Len(trains[i].route) + 1 - k]]_vars

\* A frame of seven seconds at the highest speed, worth many segments of progress, has
\* moved the train on its four-hex route from the first hex to the second, with progress 0.
C35_Witness ==
    /\ last.op = "updateTrains" /\ last.delta = 7
    /\ speed = 3
    /\ Len(trains) = 1
    /\ Len(trains[1].route) = 4
    /\ trains[1].speed10k * 8 * 7 > 3 * ProgressOne
    /\ last.events[1].moved
    /\ trains[1].currentSegment = 1
    /\ trains[1].progress = 0

\* ------------------------------------------------------------------------
\* Refused calls: builds that fail and retirements of trains that are not there
\* ------------------------------------------------------------------------
\* A segment that can be built, the same again in both directions, and segments to a hex
\* off the map, to water, to a hex that is not adjacent, and between two hexes of open sea.
RefusedTrackCalls ==
    { <<CityHex, ForestHex>>, <<ForestHex, CityHex>>, <<CityHex, OutsideHex>>,
      <<ForestHex, WaterHex>>, <<CoastHex, ForestHex>>, <<Hex(10, 5), Hex(9, 5)>> }

NextRefused ==
    \/ \E c \in RefusedTrackCalls : TrackRoom(MaxTracks, c[1], c[2]) /\ BuildTrack(c[1], c[2])
    \/ \E h \in StationHexes : StationRoom(h) /\ BuildStation(h)
    \/ \E c \in HostPurchaseCalls : TrainRoom(c[1], c[2]) /\ BuyTrain(c[1], c[2])
    \/ \E trainId \in FleetRetireCalls : RemoveTrain(trainId)

SpecRefused == Init /\ [][NextRefused]_vars

\* The GameState: everything but the record of the latest call.
GameState ==
    <<tracks, stations, trains, funds, nextTrainId, research, notifications, notifId, cities,
      explored, clock, ledger, speed>>

\* C37: a buildTrack or buildStation call that returns false, and a removeTrain call whose
\* id matches no train (which returns false), leave funds, tracks, stations, trains,
\* cities, the explored set, the notifications and the rest of the GameState as they were.
C37_RefusedCallsChangeNothing ==
    [][/\ (last'.op \in {"buildTrack", "buildStation"} /\ last'.ret = FALSE)
            => GameState' = GameState
       /\ (last'.op = "removeTrain" /\ \A i \in 1..Len(trains) : trains[i].id # last'.trainId)
            => last'.ret = FALSE /\ GameState' = GameState]_vars

\* With a track, a station and a train in place, a retirement of train 2, which does not
\* exist, has been refused.
C37_Witness ==
    /\ last.op = "removeTrain" /\ last.trainId = 2 /\ last.ret = FALSE
    /\ Len(trains) = 1 /\ trains[1].id = 1
    /\ Len(tracks) = 1
    /\ Len(stations) >= 1
    /\ Len(notifications) >= 1

\* ------------------------------------------------------------------------
\* Research points: settlements that add and technologies that cost
\* ------------------------------------------------------------------------
\* Three technologies open from the start, one that needs another first, and an unknown id.
PointsResearchCalls ==
    {"passenger_carriages", "mail_coach", "improved_boiler", "diesel_engine", "warp_drive"}

NextPoints ==
    \/ MonthsElapsed < MaxBuildMonths /\ StationRoom(CityHex) /\ BuildStation(CityHex)
    \/ \E techId \in PointsResearchCalls : UnlockTech(techId)
    \/ MonthsElapsed < MaxMonths /\ AdvanceTime

SpecPoints == InitResearch /\ [][NextPoints]_vars

\* C38: research.points is never negative, whatever the order of month ends and
\* unlockTech calls: a month end never lowers the points, and the only step that lowers
\* them is an unlockTech call that returns true, by the cost of its technology, which is
\* not above the points held before.
C38_PointsNeverNegative ==
    /\ [](research.points >= 0)
    /\ [][ /\ (last'.op = "advanceTime") => (research'.points >= research.points)
           /\ (research'.points < research.points)
                => /\ last'.op = "unlockTech" /\ last'.ret = TRUE
                   /\ InCatalogue(last'.techId)
                   /\ CostOf(last'.techId) <= research.points
                   /\ research'.points = research.points - CostOf(last'.techId) ]_vars

\* Passenger Carriages took the whole pool of 500 points, a month end with the city
\* station then brought 10, and Mail Coach (400) has just been refused.
C38_Witness ==
    /\ last.op = "unlockTech" /\ last.techId = "mail_coach" /\ last.ret = FALSE
    /\ Unlocked("passenger_carriages")
    /\ research.points = 10
    /\ MonthsElapsed = 1

\* ------------------------------------------------------------------------
\* Further claims about stations
\* ------------------------------------------------------------------------
StationsOn(hex) == {n \in 1..Len(stations) : stations[n].hex = hex}

\* C39: through builds, purchases, retirements, train updates and month ends, a city's
\* hasStation is true if and only if state.stations holds a station at the city's hex, and
\* that station is a 'station' with 2 platforms and the city's index as cityIndex; every
\* station that stands on no city's hex is a 'halt' with 1 platform and cityIndex -1.
C39_CityStations ==
    /\ \A c \in 1..Len(cities) :
          /\ cities[c].hasStation <=> StationsOn(cities[c].hex) # {}
          /\ \A n \in StationsOn(cities[c].hex) :
                /\ stations[n].type = "station"
                /\ stations[n].platforms = 2
                /\ stations[n].cityIndex = c - 1
    /\ \A n \in 1..Len(stations) :
          (\A c \in 1..Len(cities) : cities[c].hex # stations[n].hex)
            => /\ stations[n].type = "halt"
               /\ stations[n].platforms = 1
               /\ stations[n].cityIndex = -1

\* The city has its station and the forest its halt, a train has run and been retired,
\* and the first month has ended.
C39_Witness ==
    /\ cities[1].hasStation
    /\ StationsOn(CityHex) # {} /\ StationsOn(ForestHex) # {}
    /\ nextTrainId = 2 /\ trains = <<>>
    /\ LegsDone(journal, 1) >= 1
    /\ last.op = "advanceTime"

\* C40: every key of map.explored is a key of map.terrain, right after generateMap and
\* after every buildTrack and buildStation call.
C40_ExploredOnMap == explored \subseteq MapTerrainKeys

\* ------------------------------------------------------------------------
\* terrain.ts: map generation
\* ------------------------------------------------------------------------
\* Elevation, moisture and the other reals of generateMap are carried in ten-thousandths.
Scale == 10000

\* Faulty variant: the Swamp test is made before the Forest test.
terrainTypeSwampFirst(finalElevation, moist) ==
    IF finalElevation < -1500 THEN "water"
    ELSE IF finalElevation < -500 THEN "coast"
    ELSE IF finalElevation > 4500 THEN "mountains"
    ELSE IF finalElevation > 3000 THEN "hills"
    ELSE IF moist > 1000 /\ finalElevation < 500 THEN "swamp"
    ELSE IF moist > 2500 THEN "forest"
    ELSE IF moist < -2000 THEN "desert"
    ELSE "plains"

\* generateMap's classification of one hex from its final elevation and its moisture
\* (thresholds -0.15, -0.05, 0.45, 0.3, 0.25, -0.2, 0.1 and 0.05).
terrainType(finalElevation, moist) ==
    IF finalElevation < -1500 THEN "water"
    ELSE IF finalElevation < -500 THEN "coast"
    ELSE IF finalElevation > 4500 THEN "mountains"
    ELSE IF finalElevation > 3000 THEN "hills"
    ELSE IF moist > 2500 THEN "forest"
    ELSE IF moist < -2000 THEN "desert"
    ELSE IF moist > 1000 /\ finalElevation < 500 THEN "swamp"
    ELSE "plains"

\* One hex is classified.
TerrainTypeCall(finalElevation, moist) ==
    /\ last' = [op |-> "terrainType", finalElevation |-> finalElevation, moist |-> moist,
                ret |-> terrainType(finalElevation, moist)]
    /\ UNCHANGED <<tracks, stations, trains, funds, nextTrainId, research,
                   notifications, notifId, cities, explored, clock, ledger>>
    /\ UNCHANGED <<speed, journal, economyTimer>>

\* Elevations and moistures tried: every twentieth from -MaxLevel to MaxLevel twentieths,
\* and each threshold with the values one ten-thousandth to either side of it.
MaxLevel == 12

Around(t) == {t - 1, t, t + 1}

Levels == {k * (Scale \div 20) : k \in (-MaxLevel)..MaxLevel}

ElevationLevels ==
    Levels \cup Around(-1500) \cup Around(-500) \cup Around(500) \cup Around(3000) \cup Around(4500)

MoistureLevels == Levels \cup Around(-2000) \cup Around(1000) \cup Around(2500)

NextTerrain == \E e \in ElevationLevels, m \in MoistureLevels : TerrainTypeCall(e, m)

SpecTerrain == Init /\ [][NextTerrain]_vars

\* The terrain the cascade is said to give, region by region.
ClaimedTerrain(e, m) ==
    CASE e < -1500 -> "water"
      [] -1500 <= e /\ e < -500 -> "coast"
      [] e > 4500 -> "mountains"
      [] 3000 < e /\ e <= 4500 -> "hills"
      [] -500 <= e /\ e <= 3000 /\ m > 2500 -> "forest"
      [] -500 <= e /\ e <= 3000 /\ m < -2000 -> "desert"
      [] -500 <= e /\ e < 500 /\ 1000 < m /\ m <= 2500 -> "swamp"
      [] OTHER -> "plains"

\* C32: the classifier gives Water below -0.15 of elevation, else Coast below -0.05, else
\* Mountains above 0.45, else Hills above 0.3, else Forest for moisture above 0.25, else
\* Desert for moisture below -0.2, else Swamp for moisture above 0.1 with elevation below
\* 0.05, else Plains; Swamp results exactly for -0.05 <= e < 0.05 and 0.1 < m <= 0.25, and
\* a tile of elevation below 0.05 with moisture above 0.25 is Forest, never Swamp.
C32_TerrainCascade ==
    last.op = "terrainType" =>
        /\ last.ret = ClaimedTerrain(last.finalElevation, last.moist)
        /\ last.ret = "swamp"
             <=> /\ -500 <= last.finalElevation /\ last.finalElevation < 500
                 /\ 1000 < last.moist /\ last.moist <= 2500
        /\ (-500 <= last.finalElevation /\ last.finalElevation < 500 /\ last.moist > 2500)
             => last.ret = "forest"

\* A tile at elevation 0 with moisture just above 0.25 has been classified, as Forest.
C32_Witness ==
    /\ last.op = "terrainType"
    /\ last.finalElevation = 0 /\ last.moist = 2501
    /\ last.ret = "forest"

\* ------------------------------------------------------------------------
\* terrain.ts: SimpleNoise and generateMap
\* ------------------------------------------------------------------------
\* Product and quotient of two reals held in ten-thousandths, rounded to the nearest.
Mul(a, b) == (a * b + Scale \div 2) \div Scale
Div(a, b) == (a * Scale + b \div 2) \div b

\* s = (s * 16807 + 0) % 2147483647, computed without leaving 32 bits:
\* 2147483647 = 16807 * 127773 + 2836.
lcg(s) ==
    LET t == 16807 * (s % 127773) - 2836 * (s \div 127773)
    IN  IF t < 0 THEN t + 2147483647 ELSE t

\* One pass of the constructor's loop body on the loop's variables p, s and i:
\* s = lcg(s); j = s % (i + 1); [p[i], p[j]] = [p[j], p[i]]; i--.
\* p[k] of the code is p[k + 1] here.
shuffleStep(st) ==
    LET s2 == lcg(st.s)
        j == s2 % (st.i + 1)
    IN  [p |-> [st.p EXCEPT ![st.i + 1] = st.p[j + 1], ![j + 1] = st.p[st.i + 1]],
         s |-> s2, i |-> st.i - 1]

\* for (let i = 255; i > 0; i--), taken sixteen passes at a time.
RECURSIVE ShufflePasses(_, _)
ShufflePasses(st, n) ==
    IF st.i = 0 \/ n = 0 THEN st ELSE ShufflePasses(shuffleStep(st), n - 1)

RECURSIVE Shuffle(_)
Shuffle(st) == IF st.i = 0 THEN st.p ELSE Shuffle(ShufflePasses(st, 16))

\* new SimpleNoise(seed): the shuffled table p; perm is p followed by p.
SimpleNoise(seed) == Shuffle([p |-> [k \in 1..256 |-> k - 1], s |-> seed, i |-> 255])

perm(p, k) == p[(k % 256) + 1]

fade(t) == Mul(Mul(Mul(t, t), t), Mul(t, t * 6 - 15 * Scale) + 10 * Scale)

lerp(a, b, t) == a + Mul(t, b - a)

grad(hash, x, y) ==
    LET h == hash % 4
        u == IF h < 2 THEN x ELSE y
        v == IF h < 2 THEN y ELSE x
    IN  (IF h % 2 = 0 THEN u ELSE -u) + (IF h < 2 THEN v ELSE -v)

noise2D(p, x, y) ==
    LET X == (x \div Scale) % 256
        Y == (y \div Scale) % 256
        xf == x % Scale
        yf == y % Scale
        u == fade(xf)
        v == fade(yf)
        aa == perm(p, perm(p, X) + Y)
        ab == perm(p, perm(p, X) + Y + 1)
        ba == perm(p, perm(p, X + 1) + Y)
        bb == perm(p, perm(p, X + 1) + Y + 1)
    IN  lerp(lerp(grad(aa, xf, yf), grad(ba, xf - Scale, yf), u),
             lerp(grad(ab, xf, yf - Scale), grad(bb, xf - Scale, yf - Scale), u),
             v)

\* The loop of fbm from octave i on: value, amplitude, frequency and maxValue so far.
RECURSIVE fbmFrom(_, _, _, _, _, _, _, _, _)
fbmFrom(p, x, y, octaves, i, value, amplitude, frequency, maxValue) ==
    IF i >= octaves THEN Div(value, maxValue)
    ELSE fbmFrom(p, x, y, octaves, i + 1,
                 value + Mul(noise2D(p, x * frequency, y * frequency), amplitude),
                 amplitude \div 2, frequency * 2, maxValue + amplitude)

fbm(p, x, y, octaves) == fbmFrom(p, x, y, octaves, 0, 0, Scale, 1, 0)

\* Math.sqrt of a real in ten-thousandths, rounded down to a ten-thousandth.
RECURSIVE SqrtBetween(_, _, _)
SqrtBetween(n, lo, hi) ==
    IF hi - lo <= 1 THEN lo
    ELSE LET mid == (lo + hi) \div 2
         IN  IF mid * mid <= n THEN SqrtBetween(n, mid, hi) ELSE SqrtBetween(n, lo, mid)

sqrt(v) == SqrtBetween(v * Scale, 0, 3 * Scale)

\* The final elevation and the moisture of hex (q, r), generateMap lines 145-151.
finalElevation(noise, width, height, q, r) ==
    LET elevation == fbm(noise, q * 800, r * 800, 5)
        centerQ == width \div 2
        centerR == height \div 2
        dx == Div((q - centerQ) * 100, width * 45)
        dy == Div((r - centerR) * 100, height * 45)
        distFromCenter == sqrt(Mul(dx, dx) + Mul(dy, dy))
        islandMask == Scale - Mul(distFromCenter, distFromCenter)
    IN  Mul(elevation, 6000) + Mul(islandMask, 4000)

moist(moisture, q, r) == fbm(moisture, q * 600 + 50 * Scale, r * 600 + 50 * Scale, 4)

MapKeys(width, height) == {hexKey(Hex(q, r)) : q \in 0..(width - 1), r \in 0..(height - 1)}

\* The terrain map after the double loop over the grid, before the rivers.
classifiedTerrain(width, height, seed) ==
    LET noise == SimpleNoise(seed)
        moisture == SimpleNoise(seed + 1000)
    IN  [k \in MapKeys(width, height) |->
            LET h == parseHexKey(k)
            IN  terrainType(finalElevation(noise, width, height, h.q, h.r),
                            moist(moisture, h.q, h.r))]

\* The unseeded random source: the n-th call of Math.random() in a run returns the n-th
\* draw of the stream, in ten-thousandths, the stream starting again at its end.
random(stream, n) == stream[(n % Len(stream)) + 1]

\* Math.floor(Math.random() * k) for the draw d
floorTimes(d, k) == (d * k) \div Scale

HEX_DIRECTIONS == <<Hex(1, 0), Hex(1, -1), Hex(0, -1), Hex(-1, 0), Hex(-1, 1), Hex(0, 1)>>

hexNeighbors(hex) ==
    [i \in 1..Len(HEX_DIRECTIONS) |-> Hex(hex.q + HEX_DIRECTIONS[i].q, hex.r + HEX_DIRECTIONS[i].r)]

\* for (let step = 0; step < 20; step++): the river's walk from (q, r), on the loop's
\* variables terrain, q, r and step and the number n of draws made so far.
RECURSIVE riverWalk(_, _, _, _)
riverWalk(st, width, height, stream) ==
    IF st.step >= 20 THEN st
    ELSE LET rKey == hexKey(Hex(st.q, st.r))
         IN  IF st.terrain[rKey] = "water" THEN st
             ELSE LET flooded == [st.terrain EXCEPT ![rKey] = "river"]
                      InBounds(n) == n.q >= 0 /\ n.q < width /\ n.r >= 0 /\ n.r < height
                      neighbors == SelectSeq(hexNeighbors(Hex(st.q, st.r)), InBounds)
                  IN  IF Len(neighbors) = 0 THEN [st EXCEPT !.terrain = flooded]
                      ELSE LET next == neighbors[floorTimes(random(stream, st.n),
                                                            Len(neighbors)) + 1]
                           IN  riverWalk([terrain |-> flooded, q |-> next.q, r |-> next.r,
                                          step |-> st.step + 1, n |-> st.n + 1],
                                         width, height, stream)

\* for (let i = 0; i < riverStarts; i++): a start is drawn and, on Mountains or Hills,
\* walked from.
RECURSIVE addRivers(_, _, _, _, _, _)
addRivers(st, i, riverStarts, width, height, stream) ==
    IF i >= riverStarts THEN st.terrain
    ELSE LET q == floorTimes(random(stream, st.n), width)
             r == floorTimes(random(stream, st.n + 1), height)
             t == st.terrain[hexKey(Hex(q, r))]
         IN  IF t = "mountains" \/ t = "hills"
             THEN LET walked == riverWalk([terrain |-> st.terrain, q |-> q, r |-> r,
                                           step |-> 0, n |-> st.n + 2],
                                          width, height, stream)
                  IN  addRivers([terrain |-> walked.terrain, n |-> walked.n],
                                i + 1, riverStarts, width, height, stream)
             ELSE addRivers([terrain |-> st.terrain, n |-> st.n + 2],
                            i + 1, riverStarts, width, height, stream)

\* Seeds 1..MaxSeed, grids of 5 by 4 and 6 by 5, and random sources that repeat three draws
\* out of 0, 0.5 and 0.9999.
MaxSeed == 3

MapSizes == { <<5, 4>>, <<6, 5>> }

RandomDraws == {0, Scale \div 2, Scale - 1}

RandomStreams == [1..3 -> RandomDraws]

\* classifiedTerrain of every grid and seed tried, worked out once.
ClassifiedGrids ==
    [c \in {<<size[1], size[2], seed>> : size \in MapSizes, seed \in 1..MaxSeed} |->
        classifiedTerrain(c[1], c[2], c[3])]

\* generateMap(width, height, seed) for a grid of fewer than 60 hexes, on which
\* TARGET_CITIES is 0: no city is placed and nothing is explored.  The resources, rolled
\* once terrain is final, are left out.
generateMap(width, height, seed, stream) ==
    LET riverStarts == 3 + floorTimes(random(stream, 0), 3)
    IN  [width |-> width, height |-> height,
         terrain |-> addRivers([terrain |-> ClassifiedGrids[<<width, height, seed>>], n |-> 1],
                               0, riverStarts, width, height, stream),
         cities |-> <<>>, explored |-> {}]

\* One run of generateMap; last keeps, in before, the arguments and the map of the run
\* before it, if there was one.
GenerateMap(width, height, seed, stream) ==
    /\ last' = [op |-> "generateMap", width |-> width, height |-> height, seed |-> seed,
                ret |-> generateMap(width, height, seed, stream),
                before |-> IF last.op = "generateMap"
                           THEN << [width |-> last.width, height |-> last.height,
                                    seed |-> last.seed, ret |-> last.ret] >>
                           ELSE <<>>]
    /\ UNCHANGED <<tracks, stations, trains, funds, nextTrainId, research,
                   notifications, notifId, cities, explored, clock, ledger>>
    /\ UNCHANGED <<speed, journal, economyTimer>>

NextGenerate ==
    \E size \in MapSizes, seed \in 1..MaxSeed, stream \in RandomStreams :
        GenerateMap(size[1], size[2], seed, stream)

SpecGenerate == Init /\ [][NextGenerate]_vars

\* C31: two runs of generateMap with the same width, height and seed return the same
\* terrain for every hex, whatever the unseeded random source produces.
C31_SameSeedSameTerrain ==
    (/\ last.op = "generateMap"
     /\ last.before # <<>>
     /\ last.before[1].width = last.width
     /\ last.before[1].height = last.height
     /\ last.before[1].seed = last.seed)
        => last.ret.terrain = last.before[1].ret.terrain

\* ------------------------------------------------------------------------
\* Trains keep running (SpecLive)
\* ------------------------------------------------------------------------
\* One frame of a running game: updateTrains at speed 1, 2 or 3 with a frame length above 0.
RunningFrame ==
    \E delta \in Deltas \ {0}, rnd \in [1..Len(trains) -> DeliveryDraws] :
        speed >= 1 /\ LegRoom(delta) /\ UpdateTrains(delta, rnd)

\* One train is bought, once the lines are laid, and watched from then on; it is never
\* retired.
NextLive ==
    \/ \E c \in FleetTrackCalls :
          LayingOut /\ TrackRoom(MaxTracks, c[1], c[2]) /\ BuildTrack(c[1], c[2])
    \/ \E c \in WorkPurchaseCalls :
          LayingOut /\ buyTrainOutcome(c[1], c[2]).bought /\ BuyTrain(c[1], c[2])
    \/ \E delta \in Deltas, rnd \in [1..Len(trains) -> DeliveryDraws] :
          LegRoom(delta) /\ UpdateTrains(delta, rnd)
    \/ \E s \in Speeds : SetSpeed(s)

\* The host's update runs on every animation frame and calls updateTrains unless the game
\* is paused: a game that is running again and again gets its frames.
SpecLive == Init /\ [][NextLive]_vars /\ SF_vars(RunningFrame)

LegsOf(id) == JournalOf(journal, id).legs

Running(id) == \E i \in 1..Len(trains) : trains[i].id = id /\ Len(trains[i].route) >= 2

RevenueOf(id) ==
    IF \E i \in 1..Len(trains) : trains[i].id = id
    THEN trains[CHOOSE i \in 1..Len(trains) : trains[i].id = id].revenue
    ELSE 0

\* The least leg revenue: Math.floor(2 * 100 * 1 * 1) for a freight train on two hexes.
LeastLegRevenue == 2 * 100

====
